---- MODULE Spec2Model ----
(***************************************************************************)
(* Model of the related_commits synchroniser (pr_creation_script.py).      *)
(*                                                                         *)
(* Text is modelled at the character level: a file content, a line and a   *)
(* commit identifier are sequences of one-character strings, so that       *)
(* readlines / split / join / strip / writelines are computed the way the  *)
(* Python code computes them and a round trip is something TLC decides.    *)
(***************************************************************************)
EXTENDS Integers, Sequences, FiniteSets, TLC

(***************************************************************************)
(* Bounds of the model.                                                    *)
(***************************************************************************)
\* Longest pin record (in lines) given to the update loop on its own.
MaxLines == 3
\* Longest pin record (in lines) of a whole run.
MaxRecLines == 2
\* Longest walked commit range.
MaxCommits == 2
\* Longest text of the enumerated inputs of extract_pr_numbers.
MaxText == 4
\* Longest list of branch pairs given with --apex-branches/--pytorch-branches.
MaxPairs == 3
\* Most stash entries a repository holds before checkout_branch is called.
MaxOlderStashes == 1

(***************************************************************************)
(* Program constants of the update loop.                                   *)
(***************************************************************************)
\* `i < 2`: only the first two lines are apex entries.
ApexEntryLines == 2
\* `len(parts) >= 5`
MinFields == 5
\* `parts[4]`: 0-based index of the commit identifier.
CommitField == 4

(***************************************************************************)
(* Python string primitives on sequences of characters.                    *)
(***************************************************************************)
IsSpace(c) == c \in {" ", "\n", "\t"}

\* 1-based position of the first c in s, 0 when there is none.
IndexOf(s, c) ==
    IF \E i \in 1..Len(s) : s[i] = c
    THEN CHOOSE i \in 1..Len(s) : s[i] = c /\ \A j \in 1..(i-1) : s[j] # c
    ELSE 0

\* str.rstrip('\n')
RECURSIVE rstrip_nl(_)
rstrip_nl(s) ==
    IF s # <<>> /\ s[Len(s)] = "\n" THEN rstrip_nl(SubSeq(s, 1, Len(s)-1)) ELSE s

RECURSIVE lstrip(_)
lstrip(s) ==
    IF s # <<>> /\ IsSpace(s[1]) THEN lstrip(Tail(s)) ELSE s

RECURSIVE rstrip(_)
rstrip(s) ==
    IF s # <<>> /\ IsSpace(s[Len(s)]) THEN rstrip(SubSeq(s, 1, Len(s)-1)) ELSE s

\* str.strip()
strip(s) == lstrip(rstrip(s))

\* str.startswith(p)
startswith(s, p) == Len(s) >= Len(p) /\ SubSeq(s, 1, Len(p)) = p

\* `marker in content`
contains(content, marker) ==
    \E i \in 1..(Len(content) - Len(marker) + 1) :
        SubSeq(content, i, i + Len(marker) - 1) = marker

\* str.split(sep): n separators give n+1 fields, "" gives [""].
RECURSIVE split(_, _)
split(s, sep) ==
    LET k == IndexOf(s, sep)
    IN  IF k = 0 THEN <<s>>
        ELSE <<SubSeq(s, 1, k-1)>> \o split(SubSeq(s, k+1, Len(s)), sep)

\* sep.join(parts)
RECURSIVE join(_, _)
join(parts, sep) ==
    IF Len(parts) = 0 THEN <<>>
    ELSE IF Len(parts) = 1 THEN parts[1]
    ELSE parts[1] \o <<sep>> \o join(Tail(parts), sep)

\* file.readlines(): every line keeps its "\n"; the last one may have none.
RECURSIVE readlines(_)
readlines(content) ==
    IF content = <<>> THEN <<>>
    ELSE LET k == IndexOf(content, "\n")
         IN  IF k = 0 THEN <<content>>
             ELSE <<SubSeq(content, 1, k)>>
                  \o readlines(SubSeq(content, k+1, Len(content)))

\* file.writelines(lines): the lines written one after the other.
RECURSIVE writelines(_)
writelines(lines) ==
    IF lines = <<>> THEN <<>> ELSE lines[1] \o writelines(Tail(lines))

(***************************************************************************)
(* The update loop of update_related_commits_file (lines 1051-1076).       *)
(* i is the 0-based index enumerate() gives.                               *)
(***************************************************************************)
update_line_wrong_slot(i, line, current_apex_commit) ==
    LET original_line == rstrip_nl(line)
        parts == split(original_line, "|")
    IN  IF strip(original_line) = <<>> THEN [line |-> line, changed |-> FALSE]
        ELSE IF i < ApexEntryLines /\ Len(parts) >= MinFields
             THEN IF parts[CommitField + 1] # current_apex_commit
                  THEN [line |-> join([parts EXCEPT ![CommitField] = current_apex_commit], "|")
                                 \o <<"\n">>,
                        changed |-> TRUE]
                  ELSE [line |-> line, changed |-> FALSE]
             ELSE [line |-> line, changed |-> FALSE]

update_line_all_lines(i, line, current_apex_commit) ==
    LET original_line == rstrip_nl(line)
        parts == split(original_line, "|")
    IN  IF strip(original_line) = <<>> THEN [line |-> line, changed |-> FALSE]
        ELSE IF Len(parts) >= MinFields
             THEN IF parts[CommitField + 1] # current_apex_commit
                  THEN [line |-> join([parts EXCEPT ![CommitField + 1] = current_apex_commit], "|")
                                 \o <<"\n">>,
                        changed |-> TRUE]
                  ELSE [line |-> line, changed |-> FALSE]
             ELSE [line |-> line, changed |-> FALSE]

update_line_rewrite_always(i, line, current_apex_commit) ==
    LET original_line == rstrip_nl(line)
        parts == split(original_line, "|")
    IN  IF strip(original_line) = <<>> THEN [line |-> line, changed |-> FALSE]
        ELSE IF i < ApexEntryLines /\ Len(parts) >= MinFields
             THEN [line |-> join([parts EXCEPT ![CommitField + 1] = current_apex_commit], "|")
                            \o <<"\n">>,
                   changed |-> parts[CommitField + 1] # current_apex_commit]
             ELSE [line |-> line, changed |-> FALSE]

update_line(i, line, current_apex_commit) ==
    LET original_line == rstrip_nl(line)
        parts == split(original_line, "|")
    IN  IF strip(original_line) = <<>> THEN [line |-> line, changed |-> FALSE]
        ELSE IF i < ApexEntryLines /\ Len(parts) >= MinFields
             THEN IF parts[CommitField + 1] # current_apex_commit
                  THEN [line |-> join([parts EXCEPT ![CommitField + 1] = current_apex_commit], "|")
                                 \o <<"\n">>,
                        changed |-> TRUE]
                  ELSE [line |-> line, changed |-> FALSE]
             ELSE [line |-> line, changed |-> FALSE]

\* updated_lines after the loop
updated_lines(lines, current_apex_commit) ==
    [i \in 1..Len(lines) |-> update_line(i-1, lines[i], current_apex_commit).line]

\* updated_count after the loop
updated_count(lines, current_apex_commit) ==
    Cardinality({i \in 1..Len(lines) :
                    update_line(i-1, lines[i], current_apex_commit).changed})

(***************************************************************************)
(* Reading the pin record.                                                 *)
(***************************************************************************)
\* Value of a path that does not exist / of Python's None.
NoFile == <<"<no file>">>
NoneVal == <<"<None>">>

\* The four literals check_merge_conflicts looks for (line 518).
MarkerUpdatedUpstream ==
    <<"<","<","<","<","<","<","<"," ","U","p","d","a","t","e","d"," ",
      "u","p","s","t","r","e","a","m">>
MarkerHead == <<"<","<","<","<","<","<","<"," ","H","E","A","D">>
MarkerSeparator == <<"=","=","=","=","=","=","=">>
MarkerTheirs == <<">",">",">",">",">",">",">"," ">>

check_merge_conflicts_no_head(content) ==
    ~ (\/ contains(content, MarkerUpdatedUpstream)
       \/ contains(content, MarkerSeparator)
       \/ contains(content, MarkerTheirs))

\* check_merge_conflicts: TRUE when no marker occurs anywhere in the content.
check_merge_conflicts(content) ==
    ~ (\/ contains(content, MarkerUpdatedUpstream)
       \/ contains(content, MarkerHead)
       \/ contains(content, MarkerSeparator)
       \/ contains(content, MarkerTheirs))

\* The part of get_previous_apex_commit_from_file that parses the lines read.
first_line_commit(lines) ==
    IF lines # <<>>
    THEN LET first_line == strip(lines[1])
             parts == split(first_line, "|")
         IN  IF first_line # <<>> /\ ~ startswith(first_line, <<"#">>)
                /\ Len(parts) >= MinFields
             THEN parts[CommitField + 1]
             ELSE NoneVal
    ELSE NoneVal

\* get_previous_apex_commit_from_file on the file found on disk.
get_previous_apex_commit_from_file(file) ==
    IF file = NoFile THEN NoneVal
    ELSE IF ~ check_merge_conflicts(file) THEN NoneVal
    ELSE first_line_commit(readlines(file))

\* The display loop of show_related_commits_status from line i on, `shown`
\* valid lines printed so far: "ok", or "IndexError" when the print of
\* parts[5] meets a line of exactly five fields.
RECURSIVE show_lines(_, _, _)
show_lines(lines, i, shown) ==
    IF i > Len(lines) THEN "ok"
    ELSE LET line_content == strip(lines[i])
             parts == split(line_content, "|")
         IN  IF line_content # <<>> /\ ~ startswith(line_content, <<"#">>)
                /\ Len(parts) >= MinFields
             THEN IF Len(parts) < 6 THEN "IndexError"
                  ELSE IF shown + 1 >= 2 THEN "ok"
                  ELSE show_lines(lines, i + 1, shown + 1)
             ELSE show_lines(lines, i + 1, shown)

\* show_related_commits_status: "false", "ok" (True) or "IndexError".
show_related_commits_status(file) ==
    IF file = NoFile THEN "false"
    ELSE IF ~ check_merge_conflicts(file) THEN "false"
    ELSE show_lines(readlines(file), 1, 0)

(***************************************************************************)
(* Commit analysis.                                                        *)
(***************************************************************************)
Digits == <<"0","1","2","3","4","5","6","7","8","9">>
IsDigit(c) == \E d \in 1..10 : Digits[d] = c
DigitVal(c) == (CHOOSE d \in 1..10 : Digits[d] = c) - 1

\* Length of the longest prefix of s made of digits.
RECURSIVE digit_run(_)
digit_run(s) ==
    IF s # <<>> /\ IsDigit(s[1]) THEN 1 + digit_run(Tail(s)) ELSE 0

\* int() of a string of digits.
RECURSIVE to_int(_)
to_int(ds) ==
    IF ds = <<>> THEN 0
    ELSE 10 * to_int(SubSeq(ds, 1, Len(ds)-1)) + DigitVal(ds[Len(ds)])

\* re.findall(r'#(\d+)', text), each match converted by int().
RECURSIVE findall_pr(_)
findall_pr(text) ==
    IF text = <<>> THEN <<>>
    ELSE IF text[1] = "#" /\ digit_run(Tail(text)) > 0
         THEN LET d == digit_run(Tail(text))
              IN  <<to_int(SubSeq(text, 2, d + 1))>>
                  \o findall_pr(SubSeq(text, d + 2, Len(text)))
         ELSE findall_pr(Tail(text))

\* sorted(list of integers): insertion sort, duplicates kept.
RECURSIVE insert_sorted(_, _)
insert_sorted(x, s) ==
    IF s = <<>> THEN <<x>>
    ELSE IF x <= s[1] THEN <<x>> \o s
    ELSE <<s[1]>> \o insert_sorted(x, Tail(s))

RECURSIVE sorted(_)
sorted(s) ==
    IF s = <<>> THEN <<>> ELSE insert_sorted(s[1], sorted(Tail(s)))

extract_pr_numbers(commit_message) == sorted(findall_pr(commit_message))

\* The "details" fetch_and_parse_pr_details builds.  PR 269 and PR 270 are
\* parsed from the literal page texts of lines 1112-1150 (the values below are
\* what parse_pr_content returns on them); any other number gets the mock
\* record of lines 1171-1177.  Texts that the run only prints are kept as
\* opaque strings.
pr_details_of(pr_number) ==
    IF pr_number = 269
    THEN [pr_number |-> 269,
          title |-> <<"Fix test_gelu unit test">>,
          description |-> <<"reset parameters for FusedDenseGeluDense ...">>,
          fixes_links |-> << <<"https://ontrack-internal.amd.com/browse/SWDEV-540029">> >>]
    ELSE IF pr_number = 270
    THEN [pr_number |-> 270,
          title |-> <<"[AUTOGENERATED] [release/1.8.0] Fix test_gelu unit test">>,
          description |-> <<"reset parameters for FusedDenseGeluDense ... (#269)">>,
          fixes_links |-> << >>]
    ELSE [pr_number |-> pr_number,
          title |-> <<"Mock PR # Title", pr_number>>,
          description |-> <<"Mock description for PR #", pr_number>>,
          fixes_links |-> << <<"https://example.com/issue-", pr_number>> >>]

\* fetch_and_parse_pr_details: the dict it returns.  `raised` is whether the
\* body of its try block raised, in which case lines 1187-1189 return
\* {"success": False, "error": ...} with no "details".
fetch_and_parse_pr_details(pr_number, raised) ==
    IF raised
    THEN [success |-> FALSE, has_details |-> FALSE, details |-> NoneVal]
    ELSE [success |-> TRUE, has_details |-> TRUE, details |-> pr_details_of(pr_number)]

\* The loop over sorted(pr_numbers) of analyze_commit_and_prs (lines 696-711),
\* folded over the remaining numbers.  `failing` is the set of PR numbers
\* whose fetch raises.
RECURSIVE process_prs(_, _, _)
process_prs(pr_numbers, acc, failing) ==
    IF pr_numbers = <<>> THEN acc
    ELSE LET pr_result ==
                 fetch_and_parse_pr_details(pr_numbers[1], pr_numbers[1] \in failing)
         IN  process_prs(Tail(pr_numbers),
                IF pr_result.success /\ pr_result.has_details
                THEN [acc EXCEPT
                        !.prs_processed = Append(@, pr_numbers[1]),
                        !.fixes_links = @ \o pr_result.details.fixes_links,
                        !.descriptions =
                            IF pr_result.details.description # <<>>
                            THEN Append(@, <<"PR #", pr_numbers[1],
                                             pr_result.details.description>>)
                            ELSE @]
                ELSE acc,
                failing)

\* analyze_commit_and_prs.  A commit of the apex repository is a record
\* [hash, available, message]: `available` is whether git show resolves it.
\* A result without the commit_message key is written commit_message = NoneVal.
analyze_commit_and_prs(commit, failing) ==
    IF ~ commit.available \/ commit.message = <<>>
    THEN [commit_id |-> commit.hash, commit_message |-> NoneVal,
          prs_processed |-> <<>>, fixes_links |-> <<>>, descriptions |-> <<>>]
    ELSE process_prs(sorted(extract_pr_numbers(commit.message)),
                     [commit_id |-> commit.hash, commit_message |-> commit.message,
                      prs_processed |-> <<>>, fixes_links |-> <<>>,
                      descriptions |-> <<>>],
                     failing)

extend_all(all_fixes_links, links) == all_fixes_links \o links

\* `for link in ...: if link not in all_fixes_links: append` (lines 1001-1003)
RECURSIVE extend_unique(_, _)
extend_unique(all_fixes_links, links) ==
    IF links = <<>> THEN all_fixes_links
    ELSE extend_unique(
            IF \E k \in 1..Len(all_fixes_links) : all_fixes_links[k] = links[1]
            THEN all_fixes_links
            ELSE Append(all_fixes_links, links[1]),
            Tail(links))

\* The accumulators before the detailed analysis loop (lines 988-991).
EmptyAnalysis ==
    [all_commit_results |-> <<>>, all_fixes_links |-> <<>>,
     all_descriptions |-> <<>>, all_prs_processed |-> <<>>]

RECURSIVE analyze_all_stops_at_failure(_, _, _)
analyze_all_stops_at_failure(commit_list, acc, failing) ==
    IF commit_list = <<>> THEN acc
    ELSE LET commit_result == analyze_commit_and_prs(commit_list[1], failing)
         IN  IF commit_result.commit_message = NoneVal THEN acc
             ELSE analyze_all_stops_at_failure(Tail(commit_list),
                     [all_commit_results |-> Append(acc.all_commit_results, commit_result),
                      all_fixes_links |->
                          extend_unique(acc.all_fixes_links, commit_result.fixes_links),
                      all_descriptions |->
                          acc.all_descriptions \o commit_result.descriptions,
                      all_prs_processed |->
                          acc.all_prs_processed \o commit_result.prs_processed],
                     failing)

\* The detailed analysis loop (lines 993-1009) over the rest of commit_list.
RECURSIVE analyze_all(_, _, _)
analyze_all(commit_list, acc, failing) ==
    IF commit_list = <<>> THEN acc
    ELSE LET commit_result == analyze_commit_and_prs(commit_list[1], failing)
         IN  analyze_all(Tail(commit_list),
                [all_commit_results |-> Append(acc.all_commit_results, commit_result),
                 all_fixes_links |->
                     extend_unique(acc.all_fixes_links, commit_result.fixes_links),
                 all_descriptions |->
                     acc.all_descriptions \o commit_result.descriptions,
                 all_prs_processed |->
                     acc.all_prs_processed \o commit_result.prs_processed],
                failing)

\* The PR numbers handed to fetch_and_parse_pr_details (line 698) while the
\* analysis loop goes over commit_list, in call order.
RECURSIVE fetch_calls(_)
fetch_calls(commit_list) ==
    IF commit_list = <<>> THEN <<>>
    ELSE (IF ~ commit_list[1].available \/ commit_list[1].message = <<>>
          THEN <<>>
          ELSE sorted(extract_pr_numbers(commit_list[1].message)))
         \o fetch_calls(Tail(commit_list))

\* The elements of a list, as list(set(...)) keeps them.
Range(s) == {s[k] : k \in 1..Len(s)}

(***************************************************************************)
(* Sample inputs.                                                          *)
(***************************************************************************)
\* Commit identifiers (a hash is abstracted to one character).
Old == <<"O">>
New == <<"N">>

Prefix4 == <<"a","|","b","|","c","|","d","|">>
\* name|url|branch|path|<commit>|e : six fields
Entry6(c) == Prefix4 \o c \o <<"|","e">>
\* name|url|branch|path|<commit> : exactly five fields
Entry5(c) == Prefix4 \o c
\* a comment line that has more than four '|'
CommentEntry(c) == <<"#">> \o Entry6(c)
Blank == <<>>
Short == <<"a","|","b">>

\* All sequences over S of length at most n.
SeqsUpTo(S, n) == UNION {[1..k -> S] : k \in 0..n}

\* The file whose lines are `lines`, each ended by a newline.
FileOf(lines) == writelines([i \in 1..Len(lines) |-> lines[i] \o <<"\n">>])

\* Lines of the records given to the update loop on its own.
LoopLines == {Entry6(Old), Entry6(New), Entry5(Old), CommentEntry(Old), Blank, Short}
LoopCommits == {Old, New}
\* ... with and without the newline of the last line.
LoopFiles ==
    LET whole == {FileOf(ls) : ls \in SeqsUpTo(LoopLines, MaxLines)}
    IN  whole \cup {rstrip_nl(f) : f \in whole}

\* Lines of the records of whole runs: any line in the first two positions,
\* entries after them.
RunLines == {Entry6(Old), Entry6(New), Entry5(Old), CommentEntry(Old), Blank, MarkerHead}
TailLines == {Entry6(Old), Entry5(Old)}
RunFiles ==
    {FileOf(ls) : ls \in {l \in SeqsUpTo(RunLines, MaxRecLines) :
                            \A i \in 1..Len(l) : i > ApexEntryLines => l[i] \in TailLines}}

\* Commit messages of the apex repository.
MsgPlain == <<"f","i","x">>
MsgPr269 == <<"g"," ","(","#","2","6","9",")">>
MsgTwoPrs == <<"#","7"," ","#","2","7","0">>
CommitKinds ==
    {[available |-> TRUE, message |-> MsgPlain],
     [available |-> TRUE, message |-> MsgPr269],
     [available |-> TRUE, message |-> MsgTwoPrs],
     [available |-> FALSE, message |-> MsgPlain]}

\* What `git log <old>..HEAD --pretty=format:%H` lists for a history of n
\* commits: newest first.  A hash is the commit's position in the history
\* (1 = oldest).
LogOf(kinds) ==
    [i \in 1..Len(kinds) |->
        [hash |-> Len(kinds) + 1 - i,
         available |-> kinds[Len(kinds) + 1 - i].available,
         message |-> kinds[Len(kinds) + 1 - i].message]]
SampleLogs == {LogOf(k) : k \in SeqsUpTo(CommitKinds, MaxCommits)}

\* The PR numbers the sample messages name.
SamplePrs == {7, 269, 270}
\* The PR numbers whose fetch raises during a whole run: none, or the second
\* PR of the message that names two.
FailingSets == {{}, {270}}

\* Messages given to the analysis loop on its own: those above, a message
\* that names one PR twice, and one that names PR 42 and carries a link of its
\* own after "fixes:".
MsgSamePrTwice == <<"#","7"," ","#","7">>
MsgWithLink ==
    <<"(","#","4","2",")","\n","f","i","x","e","s",":"," ",
      "h","t","t","p",":","/","/","t","/","1">>
AnalysisKinds ==
    CommitKinds \cup {[available |-> TRUE, message |-> MsgSamePrTwice],
                      [available |-> TRUE, message |-> MsgWithLink]}
AnalysisLogs == {LogOf(k) : k \in SeqsUpTo(AnalysisKinds, MaxCommits)}
AnalysisFailingSets == SUBSET (SamplePrs \cup {42})

\* Texts given to extract_pr_numbers on its own.
TextChars == {"#", "3", "1", "2", " "}
SampleTexts ==
    SeqsUpTo(TextChars, MaxText)
    \cup {<<"#","1","2"," ","#","3"," ","#","1","2">>}

\* `git rev-parse HEAD` of the apex repository once its branch is checked out;
\* the dependency does not move while the model runs.
ApexHead == New

(***************************************************************************)
(* State.                                                                  *)
(***************************************************************************)
VARIABLES
    phase,                \* "first" or "second" run of the script
    pc,                   \* position of main() in the current run
    create_pr_branch,     \* --create-pr-branch
    push_and_create_pr,   \* --push-and-create-pr
    disk,                 \* related_commits in the pytorch working tree
    base,                 \* related_commits at the head of the target branch
    pr_local,             \* ... at the head of the local update branch
    pr_remote,            \* ... at the head of the pushed update branch
    cur_branch,           \* branch the pytorch working tree is on
    stash,                \* related_commits held by the stash
    apex_log,             \* {} until git log was asked, then {the range}
    loaded,               \* the record as update_related_commits_file found it
    previous_apex_commit,
    current_apex_commit,
    commit_list,
    attrs,                \* self.all_commit_results, ..., self.prs_to_fetch
    updated,              \* updated_count of the update loop
    file_result,          \* what update_related_commits_file returned
    commit_description,   \* the dict main() hands to commit_changes
    ops,                  \* write / git / gh operations attempted in this run
    exit_code,            \* -1 while the run goes on
    fault,                \* the uncaught exception that ended the run
    push_stderr,          \* what the rejected `git push` of this run reported
    pr_outcome,           \* how create_github_pr of this run went
    first,                \* how the first run ended
    h_pc, h_content, h_commit, h_lines, h_count, h_written,
                          \* the update loop applied on its own
    a_pc, a_log, a_failing, a_result, a_calls, a_description, a_message,
    a_again,              \* commit message and PR description of a second run on the same inputs
                          \* the analysis and the commit message on their own
    x_pc, x_text, x_numbers,
                          \* extract_pr_numbers applied on its own
    b_pc,                 \* position of the batch driver's main()
    b_apex_branches,      \* args.apex_branches, NoneVal when not given
    b_pytorch_branches,   \* args.pytorch_branches, NoneVal when not given
    b_pairs,              \* batch_creator.branch_pairs
    b_repos,              \* what run_batch_creation found: "unknown", "found", "missing"
    b_results,            \* `results` of run_batch_creation
    b_slept,              \* for each pair processed, whether the 5 s pause followed
    b_tally,              \* the counts print_summary printed
    b_exit,               \* exit code of the batch driver, -1 while it runs
    b_fault,              \* the uncaught exception that ended the batch driver
    c_pc, c_content, c_ok,
                          \* check_merge_conflicts applied on its own
    k_pc,                 \* position inside one call of checkout_branch
    k_tracked,            \* the tree has modified tracked files
    k_untracked,          \* the tree has untracked files
    k_mine,               \* the stash holds an entry pushed by this call
    k_older,              \* number of stash entries from before this call
    k_stashed,            \* the local `stashed` of PRCreationScript.checkout_branch
    k_trace,              \* the git commands run by the call, with their outcome
    k_ret                 \* what the call returned: "none", "True" or "False"

mainvars ==
    <<phase, pc, create_pr_branch, push_and_create_pr, disk, base, pr_local,
      pr_remote, cur_branch, stash, apex_log, loaded, previous_apex_commit,
      current_apex_commit, commit_list, attrs, updated, file_result,
      commit_description, ops, exit_code, fault, push_stderr, pr_outcome, first>>
loopvars == <<h_pc, h_content, h_commit, h_lines, h_count, h_written>>
analysisvars ==
    <<a_pc, a_log, a_failing, a_result, a_calls, a_description, a_message, a_again>>
extractvars == <<x_pc, x_text, x_numbers>>
batchvars == <<b_pc, b_apex_branches, b_pytorch_branches, b_pairs, b_repos, b_results, b_slept, b_tally, b_exit, b_fault>>
\* The variables of the parts applied on their own, which a run leaves alone.
conflictvars == <<c_pc, c_content, c_ok>>
checkoutvars == <<k_pc, k_tracked, k_untracked, k_mine, k_older, k_stashed, k_trace, k_ret>>
sidevars == <<loopvars, analysisvars, extractvars, batchvars, conflictvars, checkoutvars>>
vars == <<mainvars, sidevars>>

NoBranch == <<"<no branch>">>

\* The instance before analysis: no attribute set (hasattr is false, getattr
\* gives its default []).
NoAttrs ==
    [analysed |-> FALSE, all_commit_results |-> <<>>, all_fixes_links |-> <<>>,
     all_descriptions |-> <<>>, all_prs_processed |-> <<>>, prs_to_fetch |-> {}]

\* A `return False` of update_related_commits_file.
ReturnedFalse ==
    [is_dict |-> FALSE, success |-> FALSE, prs_to_fetch |-> {},
     all_commit_results |-> <<>>, all_fixes_links |-> <<>>]
\* `return {"success": s, "prs_to_fetch": []}`
ReturnedBare(s) ==
    [is_dict |-> TRUE, success |-> s, prs_to_fetch |-> {},
     all_commit_results |-> <<>>, all_fixes_links |-> <<>>]
NoResult == ReturnedBare(FALSE)

NoDescription ==
    [commit_messages |-> <<>>, largest_pr_ids |-> <<>>, fixes_links |-> <<>>]

NoSecondRun == [message |-> <<>>, pr_description |-> <<>>]

NoFirst == [exit_code |-> -1, ops |-> <<>>, record |-> NoFile]

enable_update == create_pr_branch \/ push_and_create_pr

\* related_commits at the commit the working tree is based on.
committed == IF cur_branch = "base" THEN base ELSE pr_local

RunLocal(l, p, c, cl, a, u, fr, cd, o, e, f) ==
    /\ l = NoneVal
    /\ p = NoneVal
    /\ c = NoneVal
    /\ cl = <<>>
    /\ a = NoAttrs
    /\ u = 0
    /\ fr = NoResult
    /\ cd = NoDescription
    /\ o = <<>>
    /\ e = -1
    /\ f = "none"

\* The state of a run that has not started.
RunLocalInit ==
    RunLocal(loaded, previous_apex_commit, current_apex_commit, commit_list,
             attrs, updated, file_result, commit_description, ops, exit_code,
             fault)

LoopOff ==
    /\ h_pc = "off"
    /\ h_content = <<>>
    /\ h_commit = <<>>
    /\ h_lines = <<>>
    /\ h_count = 0
    /\ h_written = <<>>

AnalysisOff ==
    /\ a_pc = "off"
    /\ a_log = <<>>
    /\ a_failing = {}
    /\ a_result = EmptyAnalysis
    /\ a_calls = <<>>
    /\ a_description = NoDescription
    /\ a_message = <<>>
    /\ a_again = NoSecondRun

ExtractOff ==
    /\ x_pc = "off"
    /\ x_text = <<>>
    /\ x_numbers = <<>>

\* print_summary has printed nothing.
NoTally == [printed |-> FALSE, total |-> 0, successful |-> 0, failed |-> 0]

ConflictOff ==
    /\ c_pc = "off"
    /\ c_content = <<>>
    /\ c_ok = TRUE

CheckoutOff ==
    /\ k_pc = "off"
    /\ k_tracked = FALSE
    /\ k_untracked = FALSE
    /\ k_mine = FALSE
    /\ k_older = 0
    /\ k_stashed = FALSE
    /\ k_trace = <<>>
    /\ k_ret = "none"

BatchOff ==
    /\ b_pc = "off"
    /\ b_apex_branches = NoneVal
    /\ b_pytorch_branches = NoneVal
    /\ b_pairs = <<>>
    /\ b_repos = "unknown"
    /\ b_results = <<>>
    /\ b_slept = <<>>
    /\ b_tally = NoTally
    /\ b_exit = -1
    /\ b_fault = "none"

Init ==
    /\ phase = "first"
    /\ pc = "verify"
    /\ create_pr_branch \in BOOLEAN
    /\ push_and_create_pr \in BOOLEAN
    /\ base \in RunFiles \cup {NoFile}
    /\ disk = base
    /\ pr_local = NoBranch
    /\ pr_remote = NoBranch
    /\ cur_branch = "base"
    /\ stash = NoFile
    /\ apex_log = {}
    /\ first = NoFirst
    /\ RunLocalInit
    /\ push_stderr = "none"
    /\ pr_outcome = "none"
    /\ LoopOff
    /\ AnalysisOff
    /\ ExtractOff
    /\ BatchOff
    /\ ConflictOff
    /\ CheckoutOff

\* sys.exit(code), or the uncaught exception f (the interpreter exits with 1).
Exit(code, f) ==
    /\ pc' = "done"
    /\ exit_code' = code
    /\ fault' = f

Continue(next) ==
    /\ pc' = next
    /\ UNCHANGED <<exit_code, fault>>

flags == <<phase, create_pr_branch, push_and_create_pr, first>>
gitvars == <<disk, base, pr_local, pr_remote, cur_branch, stash>>
readvars == <<loaded, previous_apex_commit, current_apex_commit>>
walkvars == <<apex_log, commit_list, attrs>>
resultvars == <<updated, file_result, commit_description>>
publishvars == <<push_stderr, pr_outcome>>

(***************************************************************************)
(* main(), step 1: setup_branches.                                         *)
(***************************************************************************)
\* verify_repo_exists for both repositories; setup_branches returns False
\* when one is missing, as it does when a checkout fails.
VerifyRepos ==
    /\ pc = "verify"
    /\ \E found \in BOOLEAN :
          IF found THEN Continue("checkout_pytorch") ELSE Continue("setup_failed")
    /\ UNCHANGED <<flags, gitvars, readvars, walkvars, resultvars, ops, publishvars, sidevars>>

\* How one call of checkout_branch on the pytorch repository can go.
CheckoutOutcomes ==
    {"stash_failed", "fetch_failed", "checkout_failed", "pull_failed",
     "ok", "ok_merged", "ok_pop_failed"}

\* checkout_branch(self.pytorch_repo, pytorch_branch): pull (a failure is only
\* a warning), stash when the tree is dirty, fetch, checkout, pull, stash pop.
\* The effect of the git commands on related_commits:
\*   stash push  the working file goes to the stash, the tree shows HEAD's;
\*   checkout    the tree shows the target branch's file;
\*   pull        the target branch may have received the pushed update
\*               ("ok_merged");
\*   stash pop   the stashed file comes back when it was stashed on the same
\*               content, and fails otherwise (the failure is only a warning).
CheckoutPytorch ==
    /\ pc = "checkout_pytorch"
    /\ \E o \in CheckoutOutcomes :
          LET dirty == disk # committed
              base2 == IF o = "ok_merged" THEN pr_remote ELSE base
              pops  == dirty /\ o # "ok_pop_failed" /\ committed = base2
          IN  /\ o \in {"stash_failed", "ok_pop_failed"} => dirty
              /\ o = "ok_merged" => pr_remote # NoBranch /\ pr_remote # base
              /\ IF o = "stash_failed"
                 THEN UNCHANGED gitvars
                 ELSE IF o \in {"fetch_failed", "checkout_failed"}
                 THEN /\ disk' = committed
                      /\ stash' = IF dirty THEN disk ELSE stash
                      /\ UNCHANGED <<base, pr_local, pr_remote, cur_branch>>
                 ELSE IF o = "pull_failed"
                 THEN /\ disk' = base
                      /\ stash' = IF dirty THEN disk ELSE stash
                      /\ cur_branch' = "base"
                      /\ UNCHANGED <<base, pr_local, pr_remote>>
                 ELSE /\ base' = base2
                      /\ cur_branch' = "base"
                      /\ disk' = IF pops THEN disk ELSE base2
                      /\ stash' = IF dirty /\ ~ pops THEN disk ELSE stash
                      /\ UNCHANGED <<pr_local, pr_remote>>
              /\ IF o \in {"ok", "ok_merged", "ok_pop_failed"}
                 THEN Continue("checkout_apex")
                 ELSE Continue("setup_failed")
    /\ UNCHANGED <<flags, readvars, walkvars, resultvars, ops, publishvars, sidevars>>

\* checkout_branch(self.apex_repo, apex_branch)
CheckoutApex ==
    /\ pc = "checkout_apex"
    /\ \E ok \in BOOLEAN :
          IF ok THEN Continue("status") ELSE Continue("setup_failed")
    /\ UNCHANGED <<flags, gitvars, readvars, walkvars, resultvars, ops, publishvars, sidevars>>

SetupFailed_goes_on ==
    /\ pc = "setup_failed"
    /\ Continue("status")
    /\ UNCHANGED <<flags, gitvars, readvars, walkvars, resultvars, ops, publishvars, sidevars>>

\* lines 1209-1212: setup_branches returned False, `sys.exit(1)`.
SetupFailed ==
    /\ pc = "setup_failed"
    /\ Exit(1, "none")
    /\ UNCHANGED <<flags, gitvars, readvars, walkvars, resultvars, ops, publishvars, sidevars>>

(***************************************************************************)
(* main(), step 2: update_related_commits_file.                            *)
(***************************************************************************)
\* self.show_related_commits_status() (line 938); its result is not used, but
\* the IndexError of line 921 is not caught anywhere.
ShowStatus ==
    /\ pc = "status"
    /\ loaded' = disk
    /\ IF show_related_commits_status(disk) = "IndexError"
       THEN Exit(1, "IndexError")
       ELSE Continue("previous")
    /\ UNCHANGED <<flags, gitvars, previous_apex_commit, current_apex_commit,
                   walkvars, resultvars, ops, publishvars, sidevars>>

\* lines 941-944: `if not previous_apex_commit: return False`
GetPrevious ==
    /\ pc = "previous"
    /\ previous_apex_commit' = get_previous_apex_commit_from_file(disk)
    /\ IF previous_apex_commit' \in {NoneVal, <<>>}
       THEN /\ file_result' = ReturnedFalse
            /\ Continue("check_result")
       ELSE /\ UNCHANGED file_result
            /\ Continue("current")
    /\ UNCHANGED <<flags, gitvars, loaded, current_apex_commit, walkvars,
                   updated, commit_description, ops, publishvars, sidevars>>

\* lines 949-952: get_current_commit_hash(self.apex_repo)
GetCurrent ==
    /\ pc = "current"
    /\ \E ok \in BOOLEAN :
          IF ok
          THEN /\ current_apex_commit' = ApexHead
               /\ UNCHANGED file_result
               /\ Continue("compare")
          ELSE /\ current_apex_commit' = NoneVal
               /\ file_result' = ReturnedFalse
               /\ Continue("check_result")
    /\ UNCHANGED <<flags, gitvars, loaded, previous_apex_commit, walkvars,
                   updated, commit_description, ops, publishvars, sidevars>>

ComparePointers_always_walk ==
    /\ pc = "compare"
    /\ UNCHANGED file_result
    /\ Continue("walk")
    /\ UNCHANGED <<flags, gitvars, readvars, walkvars, updated,
                   commit_description, ops, publishvars, sidevars>>

\* line 961 and lines 1029-1032
ComparePointers ==
    /\ pc = "compare"
    /\ IF previous_apex_commit # current_apex_commit
       THEN /\ UNCHANGED file_result
            /\ Continue("walk")
       ELSE /\ file_result' = ReturnedBare(TRUE)
            /\ Continue("check_result")
    /\ UNCHANGED <<flags, gitvars, readvars, walkvars, updated,
                   commit_description, ops, publishvars, sidevars>>

\* lines 963-967: count_commits_between (printed only) and
\* get_commit_list_since_commit, which gives [] when git log fails.
WalkRange ==
    /\ pc = "walk"
    /\ \E ok \in BOOLEAN :
          IF ok
          THEN \E log \in (IF apex_log = {} THEN SampleLogs ELSE apex_log) :
                  /\ apex_log' = {log}
                  /\ commit_list' = log
          ELSE /\ commit_list' = <<>>
               /\ UNCHANGED apex_log
    /\ Continue("analyze")
    /\ UNCHANGED <<flags, gitvars, readvars, attrs, resultvars, ops, publishvars, sidevars>>

\* lines 969-1028: the analysis of every commit of a non-empty range, stored
\* on the instance.
AnalyzeCommits ==
    /\ pc = "analyze"
    /\ IF commit_list # <<>>
       THEN \E failing \in FailingSets :
            LET a == analyze_all(commit_list, EmptyAnalysis, failing)
            IN  attrs' = [analysed |-> TRUE,
                          all_commit_results |-> a.all_commit_results,
                          all_fixes_links |-> a.all_fixes_links,
                          all_descriptions |-> a.all_descriptions,
                          all_prs_processed |-> a.all_prs_processed,
                          prs_to_fetch |-> Range(a.all_prs_processed)]
       ELSE UNCHANGED attrs
    /\ Continue("update_file")
    /\ UNCHANGED <<flags, gitvars, readvars, apex_log, commit_list, resultvars,
                   ops, publishvars, sidevars>>

\* The dict of lines 1098-1101.
ReturnedAnalysis ==
    [is_dict |-> TRUE, success |-> TRUE,
     prs_to_fetch |-> IF attrs.analysed THEN attrs.prs_to_fetch ELSE {},
     all_commit_results |-> attrs.all_commit_results,
     all_fixes_links |-> attrs.all_fixes_links]

UpdateFile_always_writes ==
    /\ pc = "update_file"
    /\ IF disk = NoFile
       THEN /\ file_result' = ReturnedFalse
            /\ UNCHANGED <<disk, updated, ops>>
       ELSE LET lines == readlines(disk)
                n == updated_count(lines, current_apex_commit)
            IN  /\ updated' = n
                /\ IF n = 0
                   THEN /\ file_result' = ReturnedBare(TRUE)
                        /\ UNCHANGED <<disk, ops>>
                   ELSE IF TRUE
                   THEN \E written \in BOOLEAN :
                           /\ ops' = Append(ops, "write")
                           /\ IF written
                              THEN /\ disk' = writelines(
                                                updated_lines(lines, current_apex_commit))
                                   /\ file_result' = ReturnedAnalysis
                              ELSE /\ UNCHANGED disk
                                   /\ file_result' = ReturnedBare(FALSE)
                   ELSE /\ file_result' = ReturnedAnalysis
                        /\ UNCHANGED <<disk, ops>>
    /\ Continue("check_result")
    /\ UNCHANGED <<flags, base, pr_local, pr_remote, cur_branch, stash, readvars,
                   walkvars, commit_description, publishvars, sidevars>>

\* The update step with the dry run returning no change set.
UpdateFile_dry_run_skips_change_set ==
    /\ pc = "update_file"
    /\ IF disk = NoFile
       THEN /\ file_result' = ReturnedFalse
            /\ UNCHANGED <<disk, updated, ops>>
       ELSE LET lines == readlines(disk)
                n == updated_count(lines, current_apex_commit)
            IN  /\ updated' = n
                /\ IF n = 0
                   THEN /\ file_result' = ReturnedBare(TRUE)
                        /\ UNCHANGED <<disk, ops>>
                   ELSE IF enable_update
                   THEN \E written \in BOOLEAN :
                           /\ ops' = Append(ops, "write")
                           /\ IF written
                              THEN /\ disk' = writelines(
                                                updated_lines(lines, current_apex_commit))
                                   /\ file_result' = ReturnedAnalysis
                              ELSE /\ UNCHANGED disk
                                   /\ file_result' = ReturnedBare(FALSE)
                   ELSE /\ file_result' = ReturnedBare(TRUE)
                        /\ UNCHANGED <<disk, ops>>
    /\ Continue("check_result")
    /\ UNCHANGED <<flags, base, pr_local, pr_remote, cur_branch, stash, readvars,
                   walkvars, commit_description, publishvars, sidevars>>

\* lines 1034-1101: read the file again, run the update loop, write the file
\* in actual-update mode, return.
UpdateFile ==
    /\ pc = "update_file"
    /\ IF disk = NoFile
       THEN /\ file_result' = ReturnedFalse
            /\ UNCHANGED <<disk, updated, ops>>
       ELSE LET lines == readlines(disk)
                n == updated_count(lines, current_apex_commit)
            IN  /\ updated' = n
                /\ IF n = 0
                   THEN /\ file_result' = ReturnedBare(TRUE)
                        /\ UNCHANGED <<disk, ops>>
                   ELSE IF enable_update
                   THEN \E written \in BOOLEAN :
                           /\ ops' = Append(ops, "write")
                           /\ IF written
                              THEN /\ disk' = writelines(
                                                updated_lines(lines, current_apex_commit))
                                   /\ file_result' = ReturnedAnalysis
                              ELSE /\ UNCHANGED disk
                                   /\ file_result' = ReturnedBare(FALSE)
                   ELSE /\ file_result' = ReturnedAnalysis
                        /\ UNCHANGED <<disk, ops>>
    /\ Continue("check_result")
    /\ UNCHANGED <<flags, base, pr_local, pr_remote, cur_branch, stash, readvars,
                   walkvars, commit_description, publishvars, sidevars>>

\* line 1217: `if not file_result["success"]`; a bool cannot be subscripted.
CheckResult ==
    /\ pc = "check_result"
    /\ IF ~ file_result.is_dict THEN Exit(1, "TypeError")
       ELSE IF ~ file_result.success THEN Exit(1, "none")
       ELSE Continue("step3")
    /\ UNCHANGED <<flags, gitvars, readvars, walkvars, resultvars, ops, publishvars, sidevars>>

(***************************************************************************)
(* main(), steps 3 and 4: branch, commit, push, pull request.              *)
(***************************************************************************)
\* lines 1222-1232 and 1354-1366
Step3 ==
    /\ pc = "step3"
    /\ IF enable_update
       THEN IF file_result.prs_to_fetch = {}
            THEN Exit(1, "none")
            ELSE Continue("create_branch")
       ELSE Exit(0, "none")
    /\ UNCHANGED <<flags, gitvars, readvars, walkvars, resultvars, ops, publishvars, sidevars>>

\* create_new_branch (lines 218-268): an existing branch of that name is
\* deleted first, then `git checkout -b` starts the branch at HEAD.
CreateBranch ==
    /\ pc = "create_branch"
    /\ ops' = Append(ops, "create_branch")
    /\ \E o \in {"ok", "delete_failed", "create_failed"} :
          /\ o = "delete_failed" => pr_local # NoBranch
          /\ IF o = "ok"
             THEN /\ pr_local' = committed
                  /\ cur_branch' = "pr"
                  /\ Continue("commit")
             ELSE /\ pr_local' = IF o = "create_failed" THEN NoBranch ELSE pr_local
                  /\ UNCHANGED cur_branch
                  /\ Exit(1, "none")
    /\ UNCHANGED <<flags, disk, base, pr_remote, stash, readvars, walkvars,
                   resultvars, publishvars, sidevars>>

\* All orders of the elements of a set: list(set(...)) promises none.
Orders(S) == {s \in [1..Cardinality(S) -> S] : Range(s) = S}

\* lines 1256-1259: the stripped messages of the results that have one.
RECURSIVE commit_messages_of(_)
commit_messages_of(results) ==
    IF results = <<>> THEN <<>>
    ELSE (IF results[1].commit_message \in {NoneVal, <<>>} THEN <<>>
          ELSE <<strip(results[1].commit_message)>>)
         \o commit_messages_of(Tail(results))

\* max() of a non-empty set of PR numbers
Max(S) == CHOOSE x \in S : \A y \in S : y <= x

largest_pr_ids_smallest(prs_to_fetch) ==
    IF prs_to_fetch # {}
    THEN << <<"https://github.com/ROCm/apex/pull/",
              CHOOSE x \in prs_to_fetch : \A y \in prs_to_fetch : x <= y>> >>
    ELSE <<>>

\* lines 1262-1267
largest_pr_ids_of(prs_to_fetch) ==
    IF prs_to_fetch # {}
    THEN << <<"https://github.com/ROCm/apex/pull/", Max(prs_to_fetch)>> >>
    ELSE <<>>

\* The commit step with a failed commit followed by the push all the same.
CommitChanges_failure_goes_on ==
    /\ pc = "commit"
    /\ ops' = Append(ops, "commit")
    /\ \E fixes_links \in Orders(Range(file_result.all_fixes_links)) :
          commit_description' =
              [commit_messages |-> commit_messages_of(file_result.all_commit_results),
               largest_pr_ids |-> largest_pr_ids_of(file_result.prs_to_fetch),
               fixes_links |-> fixes_links]
    /\ \E ok \in BOOLEAN :
          IF ok
          THEN /\ pr_local' = disk
               /\ IF push_and_create_pr THEN Continue("push") ELSE Exit(0, "none")
          ELSE /\ UNCHANGED pr_local
               /\ IF push_and_create_pr THEN Continue("push") ELSE Exit(1, "none")
    /\ UNCHANGED <<flags, disk, base, pr_remote, cur_branch, stash, readvars,
                   walkvars, updated, file_result, publishvars, sidevars>>

\* lines 1243-1282 and commit_changes: git add, git commit.
CommitChanges ==
    /\ pc = "commit"
    /\ ops' = Append(ops, "commit")
    /\ \E fixes_links \in Orders(Range(file_result.all_fixes_links)) :
          commit_description' =
              [commit_messages |-> commit_messages_of(file_result.all_commit_results),
               largest_pr_ids |-> largest_pr_ids_of(file_result.prs_to_fetch),
               fixes_links |-> fixes_links]
    /\ \E ok \in BOOLEAN :
          IF ok
          THEN /\ pr_local' = disk
               /\ IF push_and_create_pr THEN Continue("push") ELSE Exit(0, "none")
          ELSE /\ UNCHANGED pr_local
               /\ Exit(1, "none")
    /\ UNCHANGED <<flags, disk, base, pr_remote, cur_branch, stash, readvars,
                   walkvars, updated, file_result, publishvars, sidevars>>

PushBranch_retries_every_rejection ==
    /\ pc = "push"
    /\ ops' = Append(ops, "push")
    /\ \E o \in {"ok", "non-fast-forward", "other"} :
          IF o = "ok"
          THEN /\ pr_remote' = pr_local
               /\ UNCHANGED push_stderr
               /\ Continue("create_pr")
          ELSE /\ UNCHANGED pr_remote
               /\ push_stderr' = o
               /\ Continue("force_push")
    /\ UNCHANGED <<flags, disk, base, pr_local, cur_branch, stash, readvars,
                   walkvars, resultvars, pr_outcome, sidevars>>

\* push_branch_to_origin, lines 341-360: `git push --set-upstream`; a
\* rejection whose stderr holds "non-fast-forward" leads to the forced push,
\* any other one to `return False` and sys.exit(1) (lines 1296-1298).
PushBranch ==
    /\ pc = "push"
    /\ ops' = Append(ops, "push")
    /\ \E o \in {"ok", "non-fast-forward", "other"} :
          IF o = "ok"
          THEN /\ pr_remote' = pr_local
               /\ UNCHANGED push_stderr
               /\ Continue("create_pr")
          ELSE /\ UNCHANGED pr_remote
               /\ push_stderr' = o
               /\ IF o = "non-fast-forward"
                  THEN Continue("force_push")
                  ELSE Exit(1, "none")
    /\ UNCHANGED <<flags, disk, base, pr_local, cur_branch, stash, readvars,
                   walkvars, resultvars, pr_outcome, sidevars>>

\* push_branch_to_origin, lines 361-376: `git push --force-with-lease`.
ForcePush ==
    /\ pc = "force_push"
    /\ ops' = Append(ops, "push_force_with_lease")
    /\ \E ok \in BOOLEAN :
          IF ok
          THEN /\ pr_remote' = pr_local
               /\ Continue("create_pr")
          ELSE /\ UNCHANGED pr_remote
               /\ Exit(1, "none")
    /\ UNCHANGED <<flags, disk, base, pr_local, cur_branch, stash, readvars,
                   walkvars, resultvars, publishvars, sidevars>>

CreatePr_failure_is_fatal ==
    /\ pc = "create_pr"
    /\ ops' = Append(ops, "create_pr")
    /\ \E o \in {"created", "manual_instructions"} :
          /\ pr_outcome' = o
          /\ IF o = "created" THEN Exit(0, "none") ELSE Exit(1, "none")
    /\ UNCHANGED <<flags, gitvars, readvars, walkvars, resultvars, push_stderr,
                   sidevars>>

\* create_github_pr and lines 1334-1366: when gh is missing or fails the
\* function prints the compare URL with the manual instructions and returns
\* (False, None); main() then prints a warning (or opens the browser) and
\* still reaches sys.exit(0).
CreatePr ==
    /\ pc = "create_pr"
    /\ ops' = Append(ops, "create_pr")
    /\ \E o \in {"created", "manual_instructions"} :
          pr_outcome' = o
    /\ Exit(0, "none")
    /\ UNCHANGED <<flags, gitvars, readvars, walkvars, resultvars, push_stderr,
                   sidevars>>

\* The script is started again with the same arguments.
NextRun ==
    /\ pc = "done"
    /\ phase = "first"
    /\ phase' = "second"
    /\ first' = [exit_code |-> exit_code, ops |-> ops, record |-> disk]
    /\ pc' = "verify"
    /\ RunLocal(loaded', previous_apex_commit', current_apex_commit',
                commit_list', attrs', updated', file_result',
                commit_description', ops', exit_code', fault')
    /\ push_stderr' = "none"
    /\ pr_outcome' = "none"
    /\ UNCHANGED <<create_pr_branch, push_and_create_pr, gitvars, apex_log, sidevars>>

Next ==
    \/ VerifyRepos
    \/ CheckoutPytorch
    \/ CheckoutApex
    \/ SetupFailed
    \/ ShowStatus
    \/ GetPrevious
    \/ GetCurrent
    \/ ComparePointers
    \/ WalkRange
    \/ AnalyzeCommits
    \/ UpdateFile
    \/ CheckResult
    \/ Step3
    \/ CreateBranch
    \/ CommitChanges
    \/ PushBranch
    \/ ForcePush
    \/ CreatePr
    \/ NextRun

Spec == Init /\ [][Next]_vars

(***************************************************************************)
(* The update loop applied on its own to any record and commit.            *)
(***************************************************************************)
MainOff ==
    /\ phase = "first"
    /\ pc = "off"
    /\ create_pr_branch = FALSE
    /\ push_and_create_pr = FALSE
    /\ base = NoFile
    /\ disk = NoFile
    /\ pr_local = NoBranch
    /\ pr_remote = NoBranch
    /\ cur_branch = "base"
    /\ stash = NoFile
    /\ apex_log = {}
    /\ first = NoFirst
    /\ RunLocalInit
    /\ push_stderr = "none"
    /\ pr_outcome = "none"

LoopInit ==
    /\ MainOff
    /\ ConflictOff
    /\ CheckoutOff
    /\ AnalysisOff
    /\ ExtractOff
    /\ BatchOff
    /\ h_pc = "read"
    /\ h_content \in LoopFiles
    /\ h_commit \in LoopCommits
    /\ h_lines = <<>>
    /\ h_count = 0
    /\ h_written = <<>>

\* lines 1042-1076: readlines, then the loop
LoopUpdate ==
    /\ h_pc = "read"
    /\ h_lines' = updated_lines(readlines(h_content), h_commit)
    /\ h_count' = updated_count(readlines(h_content), h_commit)
    /\ h_pc' = "updated"
    /\ UNCHANGED <<mainvars, conflictvars, checkoutvars, analysisvars, extractvars, batchvars, h_content, h_commit,
                   h_written>>

\* lines 1085-1086: f.writelines(updated_lines)
LoopPersist ==
    /\ h_pc = "updated"
    /\ h_written' = writelines(h_lines)
    /\ h_pc' = "persisted"
    /\ UNCHANGED <<mainvars, conflictvars, checkoutvars, analysisvars, extractvars, batchvars, h_content, h_commit,
                   h_lines, h_count>>

LoopNext == LoopUpdate \/ LoopPersist

LoopSpec == LoopInit /\ [][LoopNext]_vars

(***************************************************************************)
(* The analysis loop and the commit message applied on their own to any    *)
(* range of commits.                                                       *)
(***************************************************************************)
\* commit_title of line 1244, the branch name kept opaque.
CommitTitle == <<"[", "<pytorch_branch>", "] update related_commit">>

\* The message with the header of every section written whether or not the
\* section has content.
full_commit_message_headers_always(commit_title, description) ==
    <<commit_title, <<>>>>
    \o << <<"Commit Messages:">> >>
    \o [i \in 1..Len(description.commit_messages) |->
           <<"- ", description.commit_messages[i]>>]
    \o << <<>>, <<"PRs:">> >>
    \o [i \in 1..Len(description.largest_pr_ids) |->
           <<"- ", description.largest_pr_ids[i]>>]
    \o << <<>>, <<"Fixes:">> >>
    \o [i \in 1..Len(description.fixes_links) |->
           <<"- ", description.fixes_links[i]>>]

\* The list `lines` of commit_changes (lines 295-315), which "\n".join turns
\* into the message: one tuple per line, <<>> for an empty line.
full_commit_message(commit_title, description) ==
    <<commit_title, <<>>>>
    \o (IF description.commit_messages # <<>>
        THEN << <<"Commit Messages:">> >>
             \o [i \in 1..Len(description.commit_messages) |->
                    <<"- ", description.commit_messages[i]>>]
             \o << <<>> >>
        ELSE <<>>)
    \o (IF description.largest_pr_ids # <<>>
        THEN << <<"PRs:">> >>
             \o [i \in 1..Len(description.largest_pr_ids) |->
                    <<"- ", description.largest_pr_ids[i]>>]
             \o << <<>> >>
        ELSE <<>>)
    \o (IF description.fixes_links # <<>>
        THEN << <<"Fixes:">> >>
             \o [i \in 1..Len(description.fixes_links) |->
                    <<"- ", description.fixes_links[i]>>]
        ELSE <<>>)

\* pr_description_parts of main() (lines 1300-1321), which "\n".join turns
\* into the PR description: the same sections, built again, without a title.
pr_description_parts(description) ==
    (IF description.commit_messages # <<>>
     THEN << <<"Commit Messages:">> >>
          \o [i \in 1..Len(description.commit_messages) |->
                 <<"- ", description.commit_messages[i]>>]
          \o << <<>> >>
     ELSE <<>>)
    \o (IF description.largest_pr_ids # <<>>
        THEN << <<"PRs:">> >>
             \o [i \in 1..Len(description.largest_pr_ids) |->
                    <<"- ", description.largest_pr_ids[i]>>]
             \o << <<>> >>
        ELSE <<>>)
    \o (IF description.fixes_links # <<>>
        THEN << <<"Fixes:">> >>
             \o [i \in 1..Len(description.fixes_links) |->
                    <<"- ", description.fixes_links[i]>>]
        ELSE <<>>)

AnalysisInit ==
    /\ MainOff
    /\ ConflictOff
    /\ CheckoutOff
    /\ LoopOff
    /\ ExtractOff
    /\ BatchOff
    /\ a_pc = "analyze"
    /\ a_log \in AnalysisLogs
    /\ a_failing \in AnalysisFailingSets
    /\ a_result = EmptyAnalysis
    /\ a_calls = <<>>
    /\ a_description = NoDescription
    /\ a_message = <<>>
    /\ a_again = NoSecondRun

\* lines 988-1009 over the whole range
AnalysisRun ==
    /\ a_pc = "analyze"
    /\ a_result' = analyze_all(a_log, EmptyAnalysis, a_failing)
    /\ a_calls' = fetch_calls(a_log)
    /\ a_pc' = "analysed"
    /\ UNCHANGED <<mainvars, conflictvars, checkoutvars, loopvars, extractvars, batchvars, a_log, a_failing,
                   a_description, a_message, a_again>>

\* lines 1251-1273 on the result (prs_to_fetch of line 1021), then the
\* message of commit_changes.
AnalysisDescribe ==
    /\ a_pc = "analysed"
    /\ \E fixes_links \in Orders(Range(a_result.all_fixes_links)) :
          LET description ==
                  [commit_messages |-> commit_messages_of(a_result.all_commit_results),
                   largest_pr_ids |->
                       largest_pr_ids_of(Range(a_result.all_prs_processed)),
                   fixes_links |-> fixes_links]
          IN  /\ a_description' = description
              /\ a_message' = full_commit_message(CommitTitle, description)
    /\ a_pc' = "described"
    /\ UNCHANGED <<mainvars, conflictvars, checkoutvars, loopvars, extractvars, batchvars, a_log, a_failing, a_result,
                   a_calls, a_again>>

\* A second run of lines 988-1009, 1251-1273, commit_changes and 1300-1323
\* on the same range with the same PR contents.
AnalysisDescribeAgain ==
    /\ a_pc = "described"
    /\ LET result == analyze_all(a_log, EmptyAnalysis, a_failing)
       IN \E fixes_links \in Orders(Range(result.all_fixes_links)) :
             LET description ==
                     [commit_messages |-> commit_messages_of(result.all_commit_results),
                      largest_pr_ids |->
                          largest_pr_ids_of(Range(result.all_prs_processed)),
                      fixes_links |-> fixes_links]
             IN  a_again' = [message |-> full_commit_message(CommitTitle, description),
                             pr_description |-> pr_description_parts(description)]
    /\ a_pc' = "described_again"
    /\ UNCHANGED <<mainvars, conflictvars, checkoutvars, loopvars, extractvars, batchvars, a_log, a_failing, a_result,
                   a_calls, a_description, a_message>>

AnalysisNext == AnalysisRun \/ AnalysisDescribe \/ AnalysisDescribeAgain

AnalysisSpec == AnalysisInit /\ [][AnalysisNext]_vars

(***************************************************************************)
(* extract_pr_numbers applied on its own to any text.                      *)
(***************************************************************************)
ExtractInit ==
    /\ MainOff
    /\ ConflictOff
    /\ CheckoutOff
    /\ LoopOff
    /\ AnalysisOff
    /\ BatchOff
    /\ x_pc = "text"
    /\ x_text \in SampleTexts
    /\ x_numbers = <<>>

ExtractRun ==
    /\ x_pc = "text"
    /\ x_numbers' = extract_pr_numbers(x_text)
    /\ x_pc' = "extracted"
    /\ UNCHANGED <<mainvars, conflictvars, checkoutvars, loopvars, analysisvars, batchvars, x_text>>

ExtractNext == ExtractRun

ExtractSpec == ExtractInit /\ [][ExtractNext]_vars

(***************************************************************************)
(* check_merge_conflicts applied on its own to the content of any record.  *)
(***************************************************************************)
\* A comment line that holds a run of '=' characters.
CommentRule == <<"#"," ","=","=","=","=","=","=","=","=">>
\* The closing marker of a conflict, with the name of the other side.
TheirsLine == MarkerTheirs \o <<"x">>

ConflictLines ==
    {Entry6(Old), CommentRule, Blank, MarkerUpdatedUpstream, MarkerHead,
     MarkerSeparator, TheirsLine}
ConflictFiles == {FileOf(ls) : ls \in SeqsUpTo(ConflictLines, MaxLines)}

ConflictInit ==
    /\ MainOff
    /\ LoopOff
    /\ AnalysisOff
    /\ ExtractOff
    /\ BatchOff
    /\ CheckoutOff
    /\ c_pc = "content"
    /\ c_content \in ConflictFiles
    /\ c_ok = TRUE

ConflictCheck ==
    /\ c_pc = "content"
    /\ c_ok' = check_merge_conflicts(c_content)
    /\ c_pc' = "checked"
    /\ UNCHANGED <<mainvars, loopvars, analysisvars, extractvars, batchvars,
                   checkoutvars, c_content>>

ConflictNext == ConflictCheck

ConflictSpec == ConflictInit /\ [][ConflictNext]_vars

(***************************************************************************)
(* One call of checkout_branch, git command by git command, in the two     *)
(* versions of it: PRCreationScript.checkout_branch and                    *)
(* BatchPRCreation.checkout_branch.  The working tree is described by      *)
(* whether it has modified tracked files and whether it has untracked      *)
(* files: `git status --porcelain` lists both, `git stash push` saves the  *)
(* first only and saves nothing ("No local changes to save", exit 0) when  *)
(* there are none, `git stash pop` applies the newest entry and fails when *)
(* there is no entry or the entry does not apply.                          *)
(***************************************************************************)
CheckoutStart(first_pc) ==
    /\ MainOff
    /\ LoopOff
    /\ AnalysisOff
    /\ ExtractOff
    /\ BatchOff
    /\ ConflictOff
    /\ k_pc = first_pc
    /\ k_tracked \in BOOLEAN
    /\ k_untracked \in BOOLEAN
    /\ k_mine = FALSE
    /\ k_older \in 0..MaxOlderStashes
    /\ k_stashed = FALSE
    /\ k_trace = <<>>
    /\ k_ret = "none"

CheckoutOthers == <<mainvars, loopvars, analysisvars, extractvars, batchvars, conflictvars>>

\* has_uncommitted_changes: False when git status itself fails.
has_uncommitted_changes(status_ok) == status_ok /\ (k_tracked \/ k_untracked)

\* `return v` of checkout_branch
Return(v) == k_ret' = v /\ k_pc' = "returned"

\* run_git_command(["stash", "push", ...]) when it succeeds
StashPushed ==
    /\ k_trace' = Append(k_trace, IF k_tracked THEN "stash push: saved"
                                               ELSE "stash push: nothing to save")
    /\ k_mine' = k_tracked
    /\ k_tracked' = FALSE

\* run_git_command(["stash", "pop"]): TRUE as `ok` needs an entry to pop.
StashPop(ok) ==
    /\ ok => (k_mine \/ k_older > 0)
    /\ k_trace' = Append(k_trace, IF ok THEN "stash pop: ok" ELSE "stash pop: failed")
    /\ IF ok
       THEN /\ k_tracked' = TRUE
            /\ k_mine' = FALSE
            /\ k_older' = IF k_mine THEN k_older ELSE k_older - 1
       ELSE UNCHANGED <<k_tracked, k_mine, k_older>>

\* A git command that changes nothing the model records.
Ran(cmd, ok) == k_trace' = Append(k_trace, IF ok THEN cmd \o ": ok" ELSE cmd \o ": failed")

(* PRCreationScript.checkout_branch *)
ScriptPullCurrent ==
    /\ k_pc = "s_pull_current"
    /\ \E ok \in BOOLEAN : Ran("pull", ok)
    /\ k_pc' = "s_stash"
    /\ UNCHANGED <<CheckoutOthers, k_tracked, k_untracked, k_mine, k_older, k_stashed, k_ret>>

ScriptStash ==
    /\ k_pc = "s_stash"
    /\ \E status_ok, ok \in BOOLEAN :
          IF has_uncommitted_changes(status_ok)
          THEN IF ok
               THEN /\ StashPushed
                    /\ k_stashed' = TRUE
                    /\ k_pc' = "s_fetch"
                    /\ UNCHANGED k_ret
               ELSE /\ k_trace' = Append(k_trace, "stash push: failed")
                    /\ Return("False")
                    /\ UNCHANGED <<k_tracked, k_mine, k_stashed>>
          ELSE /\ k_pc' = "s_fetch"
               /\ UNCHANGED <<k_tracked, k_mine, k_stashed, k_trace, k_ret>>
    /\ UNCHANGED <<CheckoutOthers, k_untracked, k_older>>

ScriptFetch ==
    /\ k_pc = "s_fetch"
    /\ \E ok \in BOOLEAN :
          /\ Ran("fetch", ok)
          /\ IF ok THEN k_pc' = "s_checkout" /\ UNCHANGED k_ret ELSE Return("False")
    /\ UNCHANGED <<CheckoutOthers, k_tracked, k_untracked, k_mine, k_older, k_stashed>>

ScriptCheckout ==
    /\ k_pc = "s_checkout"
    /\ \E ok \in BOOLEAN :
          /\ Ran("checkout", ok)
          /\ IF ok THEN k_pc' = "s_pull_target" /\ UNCHANGED k_ret ELSE Return("False")
    /\ UNCHANGED <<CheckoutOthers, k_tracked, k_untracked, k_mine, k_older, k_stashed>>

ScriptPullTarget ==
    /\ k_pc = "s_pull_target"
    /\ \E ok \in BOOLEAN :
          /\ Ran("pull", ok)
          /\ IF ok THEN k_pc' = "s_pop" /\ UNCHANGED k_ret ELSE Return("False")
    /\ UNCHANGED <<CheckoutOthers, k_tracked, k_untracked, k_mine, k_older, k_stashed>>

\* lines 165-172: the pop when `stashed`, its failure only a warning.
ScriptPop ==
    /\ k_pc = "s_pop"
    /\ IF k_stashed
       THEN \E ok \in BOOLEAN : StashPop(ok)
       ELSE UNCHANGED <<k_tracked, k_mine, k_older, k_trace>>
    /\ Return("True")
    /\ UNCHANGED <<CheckoutOthers, k_untracked, k_stashed>>

ScriptCheckoutInit == CheckoutStart("s_pull_current")

ScriptCheckoutNext ==
    \/ ScriptPullCurrent
    \/ ScriptStash
    \/ ScriptFetch
    \/ ScriptCheckout
    \/ ScriptPullTarget
    \/ ScriptPop

ScriptCheckoutSpec == ScriptCheckoutInit /\ [][ScriptCheckoutNext]_vars

(* BatchPRCreation.checkout_branch *)
BatchPullCurrent ==
    /\ k_pc = "b_pull_current"
    /\ \E ok \in BOOLEAN : Ran("pull", ok)
    /\ k_pc' = "b_fetch"
    /\ UNCHANGED <<CheckoutOthers, k_tracked, k_untracked, k_mine, k_older, k_stashed, k_ret>>

BatchFetch ==
    /\ k_pc = "b_fetch"
    /\ \E ok \in BOOLEAN :
          /\ Ran("fetch", ok)
          /\ IF ok THEN k_pc' = "b_stash" /\ UNCHANGED k_ret ELSE Return("False")
    /\ UNCHANGED <<CheckoutOthers, k_tracked, k_untracked, k_mine, k_older, k_stashed>>

\* lines 168-172
BatchStash ==
    /\ k_pc = "b_stash"
    /\ \E status_ok, ok \in BOOLEAN :
          IF has_uncommitted_changes(status_ok)
          THEN IF ok
               THEN /\ StashPushed
                    /\ k_pc' = "b_checkout"
                    /\ UNCHANGED k_ret
               ELSE /\ k_trace' = Append(k_trace, "stash push: failed")
                    /\ Return("False")
                    /\ UNCHANGED <<k_tracked, k_mine>>
          ELSE /\ k_pc' = "b_checkout"
               /\ UNCHANGED <<k_tracked, k_mine, k_trace, k_ret>>
    /\ UNCHANGED <<CheckoutOthers, k_untracked, k_older, k_stashed>>

BatchCheckout ==
    /\ k_pc = "b_checkout"
    /\ \E ok \in BOOLEAN :
          /\ Ran("checkout", ok)
          /\ IF ok THEN k_pc' = "b_pop" /\ UNCHANGED k_ret ELSE Return("False")
    /\ UNCHANGED <<CheckoutOthers, k_tracked, k_untracked, k_mine, k_older, k_stashed>>

\* lines 178-182: the pop when the tree has uncommitted changes now.
BatchPop ==
    /\ k_pc = "b_pop"
    /\ \E status_ok \in BOOLEAN :
          IF has_uncommitted_changes(status_ok)
          THEN \E ok \in BOOLEAN :
                  /\ StashPop(ok)
                  /\ IF ok THEN k_pc' = "b_pull_target" /\ UNCHANGED k_ret
                           ELSE Return("False")
          ELSE /\ k_pc' = "b_pull_target"
               /\ UNCHANGED <<k_tracked, k_mine, k_older, k_trace, k_ret>>
    /\ UNCHANGED <<CheckoutOthers, k_untracked, k_stashed>>

BatchPullTarget ==
    /\ k_pc = "b_pull_target"
    /\ \E ok \in BOOLEAN :
          /\ Ran("pull", ok)
          /\ Return(IF ok THEN "True" ELSE "False")
    /\ UNCHANGED <<CheckoutOthers, k_tracked, k_untracked, k_mine, k_older, k_stashed>>

BatchCheckoutInit == CheckoutStart("b_pull_current")

BatchCheckoutNext ==
    \/ BatchPullCurrent
    \/ BatchFetch
    \/ BatchStash
    \/ BatchCheckout
    \/ BatchPop
    \/ BatchPullTarget

BatchCheckoutSpec == BatchCheckoutInit /\ [][BatchCheckoutNext]_vars

(***************************************************************************)
(* The batch driver, batch_pr_creation.py: main() takes the branch pairs   *)
(* from the command line or keeps the built-in ones, run_batch_creation    *)
(* processes them, print_summary prints the tally and main() exits.        *)
(***************************************************************************)
DefaultPairs ==
    << <<"release/1.8.0", "release/2.8">>,
       <<"release/1.7.0", "release/2.7">>,
       <<"release/1.6.0", "release/2.6">>,
       <<"release/1.5.0", "release/2.5">>,
       <<"release/1.4.0", "release/2.4">> >>

ApexBranches == {"release/1.8.0", "release/1.7.0"}
PytorchBranches == {"release/2.8", "release/2.7"}

\* nargs="+": a list given on the command line has at least one branch.
BranchArgs(names) == (SeqsUpTo(names, MaxPairs) \ {<<>>}) \cup {NoneVal}

zip(a, b) ==
    [i \in 1..(IF Len(a) < Len(b) THEN Len(a) ELSE Len(b)) |-> <<a[i], b[i]>>]

\* What can happen to one pair: a checkout fails, the script returns 0 or
\* not, or anything in the try block raises.
PairOutcomes ==
    {"checkout_pytorch_failed", "checkout_apex_failed", "returncode_0",
     "returncode_nonzero", "exception"}

run_single_pr_creation(apex_branch, pytorch_branch, outcome) ==
    [apex_branch |-> apex_branch,
     pytorch_branch |-> pytorch_branch,
     success |-> (outcome = "returncode_0"),
     error |-> IF outcome = "returncode_0" THEN "None" ELSE outcome]

\* len([r for r in results if r["success"]])
successful_of(results) == Cardinality({i \in 1..Len(results) : results[i].success})

BatchInit ==
    /\ MainOff
    /\ ConflictOff
    /\ CheckoutOff
    /\ LoopOff
    /\ AnalysisOff
    /\ ExtractOff
    /\ b_pc = "args"
    /\ b_apex_branches \in BranchArgs(ApexBranches)
    /\ b_pytorch_branches \in BranchArgs(PytorchBranches)
    /\ b_pairs = DefaultPairs
    /\ b_repos = "unknown"
    /\ b_results = <<>>
    /\ b_slept = <<>>
    /\ b_tally = NoTally
    /\ b_exit = -1
    /\ b_fault = "none"

BatchArgs ==
    /\ b_pc = "args"
    /\ IF b_apex_branches # NoneVal /\ b_pytorch_branches # NoneVal
       THEN IF Len(b_apex_branches) # Len(b_pytorch_branches)
            THEN /\ b_pc' = "rejected"
                 /\ b_exit' = 1
                 /\ UNCHANGED b_pairs
            ELSE /\ b_pairs' = zip(b_apex_branches, b_pytorch_branches)
                 /\ b_pc' = "verify"
                 /\ UNCHANGED b_exit
       ELSE /\ b_pc' = "verify"
            /\ UNCHANGED <<b_pairs, b_exit>>
    /\ UNCHANGED <<mainvars, conflictvars, checkoutvars, loopvars, analysisvars, extractvars, b_apex_branches,
                   b_pytorch_branches, b_repos, b_results, b_slept, b_tally, b_fault>>

BatchVerifyRepos ==
    /\ b_pc = "verify"
    /\ \E found \in BOOLEAN :
          /\ b_repos' = IF found THEN "found" ELSE "missing"
          /\ b_pc' = IF found /\ b_pairs # <<>> THEN "pairs" ELSE "summary"
    /\ UNCHANGED <<mainvars, conflictvars, checkoutvars, loopvars, analysisvars, extractvars, b_apex_branches,
                   b_pytorch_branches, b_pairs, b_results, b_slept, b_tally, b_exit,
                   b_fault>>

\* One turn of the loop with the loop ending at the first failed pair.
BatchPair_stops_at_failure ==
    /\ b_pc = "pairs"
    /\ LET i == Len(b_results) + 1
           apex_branch == b_pairs[i][1]
           pytorch_branch == b_pairs[i][2]
       IN \E outcome \in PairOutcomes :
             /\ b_results' = Append(b_results,
                     run_single_pr_creation(apex_branch, pytorch_branch, outcome))
             /\ b_slept' = Append(b_slept, apex_branch # b_pairs[Len(b_pairs)][1])
             /\ b_pc' = IF i = Len(b_pairs) \/ outcome # "returncode_0"
                        THEN "summary" ELSE "pairs"
    /\ UNCHANGED <<mainvars, conflictvars, checkoutvars, loopvars, analysisvars, extractvars, b_apex_branches,
                   b_pytorch_branches, b_pairs, b_repos, b_tally, b_exit, b_fault>>

\* One turn of `for apex_branch, pytorch_branch in self.branch_pairs`.
BatchPair ==
    /\ b_pc = "pairs"
    /\ LET i == Len(b_results) + 1
           apex_branch == b_pairs[i][1]
           pytorch_branch == b_pairs[i][2]
       IN \E outcome \in PairOutcomes :
             /\ b_results' = Append(b_results,
                     run_single_pr_creation(apex_branch, pytorch_branch, outcome))
             /\ b_slept' = Append(b_slept, apex_branch # b_pairs[Len(b_pairs)][1])
             /\ b_pc' = IF i = Len(b_pairs) THEN "summary" ELSE "pairs"
    /\ UNCHANGED <<mainvars, conflictvars, checkoutvars, loopvars, analysisvars, extractvars, b_apex_branches,
                   b_pytorch_branches, b_pairs, b_repos, b_tally, b_exit, b_fault>>

\* print_summary: the three counts are printed, then the success rate is
\* computed as successful/total.
BatchPrintSummary ==
    /\ b_pc = "summary"
    /\ LET total == Len(b_results)
           successful == successful_of(b_results)
       IN /\ b_tally' = [printed |-> TRUE, total |-> total,
                         successful |-> successful, failed |-> total - successful]
          /\ IF total = 0
             THEN /\ b_fault' = "ZeroDivisionError"
                  /\ b_exit' = 1
                  /\ b_pc' = "done"
             ELSE /\ b_pc' = "exit"
                  /\ UNCHANGED <<b_fault, b_exit>>
    /\ UNCHANGED <<mainvars, conflictvars, checkoutvars, loopvars, analysisvars, extractvars, b_apex_branches,
                   b_pytorch_branches, b_pairs, b_repos, b_results, b_slept>>

BatchExit ==
    /\ b_pc = "exit"
    /\ b_exit' = IF successful_of(b_results) = Len(b_results) THEN 0 ELSE 1
    /\ b_pc' = "done"
    /\ UNCHANGED <<mainvars, conflictvars, checkoutvars, loopvars, analysisvars, extractvars, b_apex_branches,
                   b_pytorch_branches, b_pairs, b_repos, b_results, b_slept, b_tally,
                   b_fault>>

BatchNext ==
    \/ BatchArgs
    \/ BatchVerifyRepos
    \/ BatchPair
    \/ BatchPrintSummary
    \/ BatchExit

BatchSpec == BatchInit /\ [][BatchNext]_vars

(***************************************************************************)
(* Vocabulary of the properties, stated on the characters of a line and    *)
(* not through split/join.                                                 *)
(***************************************************************************)
PublishOps == {"create_branch", "commit", "push", "push_force_with_lease", "create_pr"}
PublishPcs == {"create_branch", "commit", "push", "force_push", "create_pr"}

\* A line without its newline.
Body(line) ==
    IF line # <<>> /\ line[Len(line)] = "\n" THEN SubSeq(line, 1, Len(line)-1) ELSE line

Pipes(s) == {k \in 1..Len(s) : s[k] = "|"}

\* Position of the n-th '|' of s; one past the end when s has fewer.
NthPipe(s, n) ==
    IF Cardinality(Pipes(s)) >= n
    THEN CHOOSE k \in Pipes(s) : Cardinality({j \in Pipes(s) : j < k}) = n - 1
    ELSE Len(s) + 1

\* Field 4 (0-based) of a line that has at least five fields.
Field4(line) ==
    SubSeq(Body(line), NthPipe(Body(line), 4) + 1, NthPipe(Body(line), 5) - 1)

\* The line with c in place of field 4, newline left out.
WithField4(line, c) ==
    SubSeq(Body(line), 1, NthPipe(Body(line), 4))
    \o c
    \o SubSeq(Body(line), NthPipe(Body(line), 5), Len(Body(line)))

\* Line number i (1-based) is one of the first two and has five fields or more.
EligibleEntry(i, line) ==
    i <= 2 /\ Cardinality(Pipes(Body(line))) >= 4

\* Blank, or beginning with the comment marker.
CommentOrBlank(line) ==
    \/ \A k \in 1..Len(line) : line[k] \in {" ", "\n", "\t"}
    \/ line[1] = "#"

\* A non-comment, non-blank line of at least five fields.
ValidEntry(line) ==
    ~ CommentOrBlank(line) /\ Cardinality(Pipes(Body(line))) >= 4

\* The commit identifier of the first valid entry, NoneVal when there is none.
FirstEligibleCommit(lines) ==
    LET valid == {i \in 1..Len(lines) : ValidEntry(lines[i])}
    IN  IF valid = {} THEN NoneVal
        ELSE Field4(lines[CHOOSE i \in valid : \A j \in valid : i <= j])

\* update_related_commits_file made no call that failed: the range was
\* listed, every commit resolved, the file was written, and the run did not
\* end on a failed branch creation.
NoAdapterFailure ==
    /\ file_result.is_dict /\ file_result.success
    /\ commit_list # <<>>
    /\ \A k \in 1..Len(commit_list) : commit_list[k].available
    /\ fault = "none"
    /\ ops # <<>> /\ ops[Len(ops)] # "create_branch"

(***************************************************************************)
(* Properties.                                                             *)
(***************************************************************************)

\* C1 (as claimed): in apply mode, a second run that follows a successful
\* first run with the dependency unchanged changes zero entries and attempts
\* no write, branch creation, commit, push or pull request.
C1_SecondRunChangesNothing ==
    (phase = "second" /\ enable_update /\ first.exit_code = 0)
        => (updated = 0 /\ ops = <<>>)

\* C1 (amended): in apply mode, a second run that follows a successful first
\* run and finds the pin record as the first run wrote it changes zero
\* entries and attempts no write, branch creation, commit, push or pull
\* request.
C1_SecondRunOnWrittenRecordChangesNothing ==
    (phase = "second" /\ enable_update /\ first.exit_code = 0
        /\ loaded = first.record)
        => (updated = 0 /\ ops = <<>>)

\* C1 witness: such a second run has ended; the first one had written,
\* committed and pushed.
C1_Witness ==
    /\ phase = "second" /\ enable_update /\ first.exit_code = 0
    /\ loaded = first.record
    /\ "write" \in Range(first.ops) /\ "commit" \in Range(first.ops)
    /\ pc = "done"

\* C2 (as claimed): an apply-mode run that changed at least one entry and in
\* which no call failed has created the branch and committed when it ends,
\* whatever the commit messages of the range hold.
C2_ChangedRecordIsCommitted ==
    (pc = "done" /\ enable_update /\ updated >= 1 /\ NoAdapterFailure)
        => ("create_branch" \in Range(ops) /\ "commit" \in Range(ops))

\* C3: once the pointers were found equal, the run holds an empty change set,
\* the file is as it was loaded and no write, branch, commit, push or pull
\* request was attempted, up to and including the end of the run.
C3_UpToDateTouchesNothing ==
    (/\ pc \in {"check_result", "step3", "done"}
     /\ current_apex_commit # NoneVal
     /\ previous_apex_commit = current_apex_commit)
        => /\ file_result = ReturnedBare(TRUE)
           /\ commit_list = <<>>
           /\ attrs = NoAttrs
           /\ updated = 0
           /\ disk = loaded
           /\ ops = <<>>

\* C3 witness: an apply-mode run ended on equal pointers.
C3_Witness ==
    /\ pc = "done" /\ enable_update
    /\ current_apex_commit # NoneVal
    /\ previous_apex_commit = current_apex_commit

\* C4 (as claimed): a run whose update step returned success with zero
\* entries changed ends with exit code 0, in either mode.
C4_ZeroChangeExitsZero ==
    (pc = "done" /\ file_result = ReturnedBare(TRUE) /\ updated = 0)
        => exit_code = 0

C6_UpdateRewritesEligibleEntries ==
    (h_pc \in {"updated", "persisted"})
        => LET lines == readlines(h_content)
               rewritten == {i \in 1..Len(lines) :
                                EligibleEntry(i, lines[i]) /\ Field4(lines[i]) # h_commit}
           IN  /\ Len(h_lines) = Len(lines)
               /\ \A i \in 1..Len(lines) :
                     IF i \in rewritten
                     THEN Body(h_lines[i]) = WithField4(lines[i], h_commit)
                     ELSE h_lines[i] = lines[i]
               /\ h_count = Cardinality(rewritten)
               /\ h_count \in 0..2

\* C6 witness: two entries rewritten while a third line with the old commit
\* in field 4 is kept.
C6_Witness ==
    /\ h_pc = "updated" /\ h_count = 2
    /\ Len(h_lines) >= 3
    /\ Cardinality(Pipes(Body(h_lines[3]))) >= 4
    /\ Field4(h_lines[3]) # h_commit

\* C7 (as claimed): every blank line and every line that begins with '#' of
\* the record as loaded is still there, unchanged, in the file on disk.
C7_CommentsAndBlanksKept ==
    (loaded \notin {NoneVal, NoFile} /\ disk # NoFile)
        => \A i \in 1..Len(readlines(loaded)) :
              CommentOrBlank(readlines(loaded)[i])
                 => /\ i <= Len(readlines(disk))
                    /\ readlines(disk)[i] = readlines(loaded)[i]

\* C8 (as claimed): the pointer read from a record without conflict markers
\* is field 4 of its first valid entry, and None only when it has none.
C8_PointerOfFirstEligibleEntry ==
    (pc = "current" \/ (pc = "check_result" /\ ~ file_result.is_dict
                          /\ current_apex_commit = NoneVal))
        => (loaded # NoFile /\ check_merge_conflicts(loaded)
              => previous_apex_commit = FirstEligibleCommit(readlines(loaded)))

\* C9 (as claimed): a record whose first entry has exactly five fields goes
\* through the run without an uncaught exception.
C9_FiveFieldRecordNoFault ==
    (/\ loaded \notin {NoneVal, NoFile}
     /\ readlines(loaded) # <<>>
     /\ ~ CommentOrBlank(readlines(loaded)[1])
     /\ Cardinality(Pipes(Body(readlines(loaded)[1]))) = 4)
        => fault = "none"

\* C10: when the update loop changed no entry, writing its lines back gives
\* the content that was read, character for character.
C10_ZeroUpdateRoundTrip ==
    (h_pc = "persisted" /\ h_count = 0) => h_written = h_content

\* C10 witness: a record with an entry already at the new commit, and no
\* newline at its end, went through the loop and was written back.
C10_Witness ==
    /\ h_pc = "persisted" /\ h_count = 0
    /\ h_content # <<>>
    /\ h_content[Len(h_content)] # "\n"
    /\ \E i \in 1..Len(readlines(h_content)) :
          /\ EligibleEntry(i, readlines(h_content)[i])
          /\ Field4(readlines(h_content)[i]) = h_commit

\* A line of the record is exactly '<<<<<<< HEAD'.
HasConflictLine(content) ==
    \E i \in 1..Len(readlines(content)) : Body(readlines(content)[i]) = MarkerHead

\* C11: once a run has found a record with a line equal to '<<<<<<< HEAD',
\* the only steps it takes are the load and the check of its result: the load
\* yields no pointer (update_related_commits_file returns False), the tip is
\* not read, no range is walked, no entry is rewritten, the file on disk stays
\* as found, and no write, branch, commit, push or PR is attempted.
C11_ConflictHalts ==
    (loaded \notin {NoneVal, NoFile} /\ HasConflictLine(loaded))
        => /\ pc \in {"previous", "check_result", "done"}
           /\ pc \in {"check_result", "done"}
                 => previous_apex_commit = NoneVal /\ file_result = ReturnedFalse
           /\ current_apex_commit = NoneVal
           /\ commit_list = <<>>
           /\ attrs = NoAttrs
           /\ updated = 0
           /\ ops = <<>>
           /\ disk = loaded

\* A run in apply mode ended on a record whose first line is a valid entry
\* naming the old commit and whose second line is the conflict marker.
C11_Witness ==
    /\ pc = "done"
    /\ enable_update
    /\ loaded \notin {NoneVal, NoFile}
    /\ HasConflictLine(loaded)
    /\ ValidEntry(readlines(loaded)[1])
    /\ Field4(readlines(loaded)[1]) = Old

\* The integers that follow a '#' in the text.
NumbersAfterHash(text) ==
    {to_int(SubSeq(text, k + 1, k + digit_run(SubSeq(text, k + 1, Len(text))))) :
        k \in {j \in 1..Len(text) :
                 text[j] = "#" /\ digit_run(SubSeq(text, j + 1, Len(text))) > 0}}

\* C12 (as claimed): the list extract_pr_numbers returns is strictly
\* ascending, so without repetition, and holds exactly the integers that
\* follow a '#' in the text.
C12_ExtractedNumbersDistinct ==
    x_pc = "extracted"
        => /\ \A i \in 1..Len(x_numbers) - 1 : x_numbers[i] < x_numbers[i + 1]
           /\ Range(x_numbers) = NumbersAfterHash(x_text)

\* C13 (as claimed): over one analysis of a range, no PR number is handed to
\* fetch_and_parse_pr_details more than once.
C13_EachPrFetchedOnce ==
    a_pc # "analyze"
        => \A i, j \in 1..Len(a_calls) : a_calls[i] = a_calls[j] => i = j

\* The links a text carries itself: what follows "fixes: " up to the next
\* white space.
FixesMarker == <<"f","i","x","e","s",":"," ">>
LinkAt(text, k) ==
    LET rest == SubSeq(text, k, Len(text))
        stops == {j \in 1..Len(rest) : rest[j] \in {" ", "\n", "\t"}}
    IN  IF stops = {} THEN rest
        ELSE SubSeq(rest, 1, (CHOOSE j \in stops : \A i \in stops : j <= i) - 1)
MessageFixLinks(text) ==
    {LinkAt(text, k + Len(FixesMarker)) :
        k \in {j \in 1..Len(text) - Len(FixesMarker) :
                 SubSeq(text, j, j + Len(FixesMarker) - 1) = FixesMarker}}

\* The links of the PRs resolved for a commit message.
ResolvedFixLinks(text, failing) ==
    UNION {Range(pr_details_of(n).fixes_links) : n \in NumbersAfterHash(text) \ failing}

\* The commits of a range whose details and message git gives.
Fetched(log) == {k \in 1..Len(log) : log[k].available /\ log[k].message # <<>>}

\* C14 (as claimed): the fix-links aggregated over a range are the links
\* carried by the messages of its commits together with the links of the PRs
\* resolved for them.
C14_FixLinksOfMessagesAndPrs ==
    a_pc # "analyze"
        => Range(a_result.all_fixes_links)
              = UNION {MessageFixLinks(a_log[k].message)
                          \cup ResolvedFixLinks(a_log[k].message, a_failing) :
                       k \in Fetched(a_log)}

NoRepeat(list) == \A i, j \in 1..Len(list) : list[i] = list[j] => i = j

\* The lines of a message that follow its line `header`.
SectionAfter(message, header) ==
    LET at == {i \in 1..Len(message) : message[i] = header}
    IN  IF at = {} THEN <<>>
        ELSE SubSeq(message, (CHOOSE i \in at : TRUE) + 1, Len(message))

RECURSIVE FetchedMessages(_)
FetchedMessages(log) ==
    IF log = <<>> THEN <<>>
    ELSE (IF log[1].available /\ log[1].message # <<>> THEN <<log[1].message>> ELSE <<>>)
         \o FetchedMessages(Tail(log))

\* C17: whatever commits of the walked range fail to be fetched, the
\* messages listed from the analysis are those of all the other commits, and
\* the step after the analysis is always the update of the record, never the
\* end of the run.
C17_CommitFailureDoesNotAbort ==
    /\ [](attrs.analysed
            => commit_messages_of(attrs.all_commit_results)
                  = FetchedMessages(commit_list))
    /\ [][pc = "analyze" => pc' = "update_file" /\ exit_code' = -1]_vars

\* A range whose newest commit could not be fetched and whose other commit
\* could: the record has been rewritten and the other message is listed.
C17_Witness ==
    /\ Len(commit_list) = 2
    /\ ~ commit_list[1].available
    /\ commit_list[2].available
    /\ attrs.analysed
    /\ commit_messages_of(attrs.all_commit_results) = <<commit_list[2].message>>
    /\ updated > 0
    /\ ops # <<>> /\ ops[1] = "write"

\* The PR numbers named by the messages of the commits git resolves.
Encountered(log) == UNION {NumbersAfterHash(log[k].message) : k \in Fetched(log)}

\* C18 (as claimed): when the fetch of some PRs fails, every commit still has
\* its result, the other PRs still give their links, the failed ones give
\* none, and every PR number named in a message, the failed ones included, is
\* in the set the largest PR is taken from.
C18_FailedPrStaysCandidate ==
    a_pc # "analyze"
        => /\ Len(a_result.all_commit_results) = Len(a_log)
           /\ Range(a_result.all_fixes_links)
                 = UNION {ResolvedFixLinks(a_log[k].message, a_failing) :
                          k \in Fetched(a_log)}
           /\ Range(a_result.all_prs_processed) = Encountered(a_log)

\* C19 (as claimed): a run that found the pointers different and an empty
\* range (git log failed, or listed nothing) ends with exit code 0, with the
\* record on disk as it was loaded and with no write, branch, commit, push or
\* PR attempted.
C19_EmptyRangeIsNothingToDo ==
    (/\ pc = "done"
     /\ previous_apex_commit # NoneVal
     /\ current_apex_commit # NoneVal
     /\ previous_apex_commit # current_apex_commit
     /\ commit_list = <<>>)
        => /\ exit_code = 0
           /\ ops = <<>>
           /\ disk = loaded

\* C20: when setup_branches has failed (a checkout failed, or a repository
\* is missing), the record has not been read, no pointer is known, nothing
\* was walked or rewritten, and no write, branch, commit, push or PR was
\* attempted; the one step that follows ends the run with exit code 1 and
\* leaves the record, the pointers and the branches as they are.
C20_CheckoutFailureEndsRun ==
    /\ [](pc = "setup_failed"
            => /\ loaded = NoneVal
               /\ previous_apex_commit = NoneVal
               /\ current_apex_commit = NoneVal
               /\ commit_list = <<>>
               /\ updated = 0
               /\ ops = <<>>)
    /\ [][pc = "setup_failed"
            => /\ pc' = "done"
               /\ exit_code' = 1
               /\ UNCHANGED <<gitvars, readvars, walkvars, resultvars, ops>>]_vars

\* The second run, started on a rewritten record in apply mode, has ended
\* on a failed checkout of one of the repositories after the pytorch
\* checkout had stashed the record.
C20_Witness ==
    /\ phase = "second"
    /\ pc = "done"
    /\ exit_code = 1
    /\ enable_update
    /\ stash # NoFile
    /\ loaded = NoneVal
    /\ ops = <<>>

\* The pushes among the operations of the run, in order.
Pushes == SelectSeq(ops, LAMBDA o : o \in {"push", "push_force_with_lease"})

\* C21: the pushes of a run are none, one plain push, or one plain push
\* followed by one push --force-with-lease; the forced push is due or done
\* only when the plain push was rejected as non-fast-forward; after any other
\* rejection the run has ended with that single push.
C21_PushRetryProtocol ==
    /\ Pushes \in {<<>>, <<"push">>, <<"push", "push_force_with_lease">>}
    /\ pc = "force_push" => push_stderr = "non-fast-forward" /\ Pushes = <<"push">>
    /\ Len(Pushes) = 2 => push_stderr = "non-fast-forward"
    /\ push_stderr = "other"
          => pc = "done" /\ exit_code = 1 /\ Pushes = <<"push">>

\* A run ended well after its plain push was rejected and the forced one
\* went through.
C21_Witness ==
    /\ pc = "done"
    /\ exit_code = 0
    /\ Pushes = <<"push", "push_force_with_lease">>
    /\ pr_remote = pr_local

\* C22: a run in which create_github_pr fell back to the manual
\* instructions is over, with exit code 0 and no exception, the branch
\* pushed.
C22_PrFailureIsNotFatal ==
    pr_outcome = "manual_instructions"
        => /\ pc = "done"
           /\ exit_code = 0
           /\ fault = "none"
           /\ pr_remote = pr_local
           /\ ops[Len(ops)] = "create_pr"

\* Such a run, after a plain push that was accepted.
C22_Witness ==
    /\ pr_outcome = "manual_instructions"
    /\ exit_code = 0
    /\ Pushes = <<"push">>

\* C23: when both repositories exist, the batch driver processes every
\* branch pair exactly once and in list order, and gives one result per
\* pair, whatever the outcome of the pairs before it.
C23_EveryPairProcessedOnce ==
    /\ b_repos = "found" =>
          /\ Len(b_results) <= Len(b_pairs)
          /\ \A i \in 1..Len(b_results) :
                /\ b_results[i].apex_branch = b_pairs[i][1]
                /\ b_results[i].pytorch_branch = b_pairs[i][2]
    /\ b_repos = "found" /\ b_pc \in {"summary", "exit", "done"} =>
          Len(b_results) = Len(b_pairs)

\* A batch run that went on to its last pair after an earlier pair failed.
C23_Witness ==
    /\ b_pc = "done"
    /\ b_repos = "found"
    /\ Len(b_pairs) >= 2
    /\ Len(b_results) = Len(b_pairs)
    /\ ~b_results[1].success
    /\ b_results[Len(b_results)].success

\* C24: the batch driver always prints the final tally and then exits with
\* code 0 if and only if every pair succeeded, for every result list,
\* the empty list of a missing repository included.
C24_TallyThenExitCode ==
    b_pc = "done" =>
        /\ b_tally.printed
        /\ b_tally.total = Len(b_results)
        /\ b_tally.successful = successful_of(b_results)
        /\ b_fault = "none"
        /\ b_exit = 0 <=> \A i \in 1..Len(b_results) : b_results[i].success

\* The results of a range put in the order of the history, oldest commit
\* first (a commit's hash is its position in the history).
ByAge(results) ==
    [i \in 1..Len(results) |-> CHOOSE r \in Range(results) : r.commit_id = i]

\* C25: the commits of the walked range are aggregated oldest to newest: in
\* the aggregated results and in the message list of the commit description
\* the message of an older commit precedes the message of a newer one.
C25_MessagesOldestFirst ==
    /\ \A i, j \in 1..Len(a_result.all_commit_results) :
          i < j => a_result.all_commit_results[i].commit_id
                      < a_result.all_commit_results[j].commit_id
    /\ a_pc = "described" =>
          a_description.commit_messages
              = commit_messages_of(ByAge(a_result.all_commit_results))

Headers == {<<"Commit Messages:">>, <<"PRs:">>, <<"Fixes:">>}

\* The lines of `message` where `header` stands.
HeaderAt(message, header) == {i \in 1..Len(message) : message[i] = header}

\* `header` is absent when there are no items; otherwise it stands once and
\* the lines after it are the items, one bullet each, in their order.
SectionListed(message, header, items) ==
    IF items = <<>>
    THEN HeaderAt(message, header) = {}
    ELSE /\ Cardinality(HeaderAt(message, header)) = 1
         /\ \A i \in HeaderAt(message, header) :
               /\ i + Len(items) <= Len(message)
               /\ \A k \in 1..Len(items) : message[i + k] = <<"- ", items[k]>>
               /\ i + Len(items) < Len(message) => message[i + Len(items) + 1] \in Headers \cup {<<>>}

\* C26: the commit message lists the commit messages, the largest PR and the
\* fixes in that order, each as a bulleted list under its header, and a
\* section is there if and only if it has content.
C26_SectionsInFixedOrder ==
    a_pc = "described" =>
        /\ SectionListed(a_message, <<"Commit Messages:">>, a_description.commit_messages)
        /\ SectionListed(a_message, <<"PRs:">>, a_description.largest_pr_ids)
        /\ SectionListed(a_message, <<"Fixes:">>, a_description.fixes_links)
        /\ \A i \in HeaderAt(a_message, <<"Commit Messages:">>),
              j \in HeaderAt(a_message, <<"PRs:">>) : i < j
        /\ \A i \in HeaderAt(a_message, <<"Commit Messages:">>) \cup HeaderAt(a_message, <<"PRs:">>),
              j \in HeaderAt(a_message, <<"Fixes:">>) : i < j
        /\ \A i \in 3..Len(a_message) :
              \/ a_message[i] \in Headers \cup {<<>>}
              \/ Len(a_message[i]) = 2 /\ a_message[i][1] = "- "

\* A message with all three sections.
C26_Witness ==
    /\ a_pc = "described"
    /\ a_description.commit_messages # <<>>
    /\ a_description.largest_pr_ids # <<>>
    /\ a_description.fixes_links # <<>>
    /\ Cardinality(Headers \cap Range(a_message)) = 3

\* C27: two runs over the same record, the same commit range and the same
\* PR contents produce the same commit message and the same PR description,
\* line for line; the order of the fix-links is the same in both.
C27_SameInputsSameMessage ==
    a_pc = "described_again" =>
        /\ a_again.message = a_message
        /\ a_again.pr_description = pr_description_parts(a_description)

\* update_related_commits_file has gone through its update loop and
\* returned a dict in this run.
UpdateStepReturned ==
    /\ pc \in {"check_result", "step3", "done"} \cup PublishPcs
    /\ current_apex_commit # NoneVal
    /\ previous_apex_commit # current_apex_commit
    /\ file_result.is_dict

\* What the update step returns for the record it read and the commits it
\* analysed, whatever the mode.
ExpectedResult ==
    IF updated = 0 THEN ReturnedBare(TRUE) ELSE ReturnedAnalysis

StoresTip(content) ==
    /\ content # NoFile
    /\ \A i \in 1..Len(readlines(content)) :
          EligibleEntry(i, readlines(content)[i])
              => Field4(readlines(content)[i]) = ApexHead

\* The record read by this run has the tip in its first entry and another
\* commit in its second, and the run resolved the tip.
SecondEntryDrifted ==
    /\ loaded \notin {NoneVal, NoFile}
    /\ current_apex_commit # NoneVal
    /\ Len(readlines(loaded)) >= 2
    /\ EligibleEntry(1, readlines(loaded)[1])
    /\ EligibleEntry(2, readlines(loaded)[2])
    /\ Field4(readlines(loaded)[1]) = ApexHead
    /\ Field4(readlines(loaded)[2]) # ApexHead

\* C29: after an apply-mode run that ends as a success every eligible entry
\* stores the tip of apex, and a record whose first entry has the tip while
\* its second has not is repaired by the run.
C29_EveryEligibleEntryStoresTip ==
    /\ (pc = "done" /\ enable_update /\ exit_code = 0) => StoresTip(disk)
    /\ (pc = "done" /\ enable_update /\ SecondEntryDrifted)
          => (exit_code = 0 /\ StoresTip(disk))

\* C30: an apply-mode run that ends as a failure before the updated record
\* was committed leaves the record file as the run read it; no run ends
\* with the record rewritten but neither committed nor reported as success.
C30_FailureLeavesRecordAsRead ==
    (/\ pc = "done"
     /\ enable_update
     /\ exit_code # 0
     /\ loaded # NoneVal
     /\ "push" \notin Range(ops))
        => disk = loaded

\* The line is one of the four conflict-marker lines: an opening marker, the
\* separator, or a closing marker followed by the name of the other side.
MarkerLine(line) ==
    \/ Body(line) \in {MarkerUpdatedUpstream, MarkerHead, MarkerSeparator}
    \/ startswith(Body(line), MarkerTheirs)

\* C31: the load reports a conflicted record if and only if some line of the
\* file is a conflict-marker line; a record with no such line, such as one
\* whose comment holds a run of '=', loads.
C31_ConflictedIffMarkerLine ==
    c_pc = "checked" =>
        (c_ok <=> ~ \E i \in 1..Len(readlines(c_content)) :
                       MarkerLine(readlines(c_content)[i]))

\* The publish steps of the run in the order they were attempted, the
\* forced retry of the push left out.
PublishSteps == SelectSeq(ops, LAMBDA o : o # "push_force_with_lease")

IsPrefix(s, t) == Len(s) <= Len(t) /\ SubSeq(t, 1, Len(s)) = s

\* C32: the steps are attempted in the order write, branch, commit, push,
\* pull request, none without the one before it; a step is followed by the
\* next only when it succeeded (the branch is checked out, the record is
\* committed, the branch is on the remote), and a failed branch creation,
\* commit or push ends the run with exit code 1.
C32_PublishStepsOrderedAndGated ==
    /\ [](/\ IsPrefix(PublishSteps,
                       <<"write", "create_branch", "commit", "push", "create_pr">>)
          /\ (pc = "create_branch" => (file_result.success /\ disk # loaded)))
    /\ [][/\ (pc = "create_branch"
               => (\/ (pc' = "commit" /\ cur_branch' = "pr")
                   \/ (pc' = "done" /\ exit_code' = 1 /\ UNCHANGED cur_branch)))
           /\ (pc = "commit"
               => (\/ (pc' = "push" /\ pr_local' = disk)
                   \/ (pc' = "done" /\ exit_code' = 0 /\ pr_local' = disk)
                   \/ (pc' = "done" /\ exit_code' = 1 /\ UNCHANGED pr_local)))
           /\ (pc = "push"
               => (\/ (pc' = "create_pr" /\ pr_remote' = pr_local)
                   \/ (pc' = "force_push" /\ UNCHANGED pr_remote)
                   \/ (pc' = "done" /\ exit_code' = 1 /\ UNCHANGED pr_remote)))
           /\ (pc = "force_push"
               => (\/ (pc' = "create_pr" /\ pr_remote' = pr_local)
                   \/ (pc' = "done" /\ exit_code' = 1 /\ UNCHANGED pr_remote)))]_vars

\* A run went through all five steps and ended well.
C32_Witness ==
    /\ pc = "done"
    /\ exit_code = 0
    /\ ops = <<"write", "create_branch", "commit", "push", "create_pr">>
    /\ pr_remote = disk

\* The call ran `git stash pop`, whatever came of it.
PopPerformed == \E i \in 1..Len(k_trace) : k_trace[i] \in {"stash pop: ok", "stash pop: failed"}

\* The call stashed uncommitted changes.
ChangesStashed == \E i \in 1..Len(k_trace) : k_trace[i] = "stash push: saved"

CheckoutDone == \E i \in 1..Len(k_trace) : k_trace[i] = "checkout: ok"

\* C33: in the batch driver's checkout_branch, changes stashed before the
\* checkout are popped after a successful checkout, and no pop is performed
\* when this call stashed nothing.
C33_StashAndPopPaired ==
    /\ (ChangesStashed /\ CheckoutDone /\ k_pc \in {"b_pull_target", "returned"})
          => PopPerformed
    /\ PopPerformed => ChangesStashed

\* C34: PRCreationScript.checkout_branch attempts a stash pop before it
\* returns whenever it stashed uncommitted changes, on the paths where
\* fetch, checkout or the pull fails too, and so never returns with the
\* changes only in the stash for want of a pop.
C34_PopBeforeEveryReturn ==
    (k_ret # "none" /\ ChangesStashed) => PopPerformed

\* C35: whatever path update_related_commits_file returned by, its result
\* is a record with a 'success' field, and the caller's test of it ends in a
\* clean exit, never in an exception.
C35_ResultAlwaysHasSuccessField ==
    /\ pc = "check_result" => file_result.is_dict
    /\ fault # "TypeError"

\* C36: the batch driver pauses after every branch pair but the last and
\* not after the last, whatever the list of pairs, lists that name one apex
\* branch in several pairs included.
C36_PauseBetweenPairsOnly ==
    \A i \in 1..Len(b_slept) : b_slept[i] <=> (i < Len(b_pairs))
====
